---- MODULE Spec2Model ----
(***************************************************************************)
(* Model of mcetl: the workflow builder (processor/workflow.go) and the    *)
(* workflow materializer (processor/creater.go), driven by the load        *)
(* command.  Strings are sequences of one-character strings, so that the   *)
(* concatenations the code performs are concatenations in the model.       *)
(***************************************************************************)
EXTENDS Integers, Sequences, FiniteSets, TLC

----------------------------------------------------------------------------
(* Bounds of the input space *)

\* rows of all worksheets of one load
MaxTotalRows == 2

\* depth of the createWorkflowSteps recursion at which the goroutine stack is
\* exhausted; no walk of an acyclic graph of the bounded inputs gets that deep
MaxDepth == 6

----------------------------------------------------------------------------
(* Strings, attributes, rows, worksheets *)

Empty == <<>>

SampleNames == { <<"S">>, <<"S", "A">> }

WorksheetNames == << <<"A">>, <<"A", "A">> >>

\* model.Attribute: Name, Unit and Value; Value stands for the map
\* {"value": v} that cellToJSONMap returns, v named by its text
Attr(name, unit, value) == [Name |-> name, Unit |-> unit, Value |-> value]

ProcessAttrChoices == { <<>>, << Attr(<<"T">>, <<"c">>, "400") >> }

GrainOf2 == << Attr(<<"G">>, <<"m">>, "2") >>

SampleAttrChoices == { <<>>, GrainOf2 }

FileChoices == { <<>> }

\* model.Sample as the row processor leaves it
Sample(name, parent, pattrs, attrs, files) ==
    [Name |-> name, Parent |-> parent, ProcessAttrs |-> pattrs,
     Attributes |-> attrs, Files |-> files]

\* model.Worksheet: its name and its sample rows
Worksheet(name, samples) == [Name |-> name, Samples |-> samples]

SeqsUpTo(S, n) == UNION { [1..k -> S] : k \in 0..n }

\* the rows a worksheet may hold.  With the parent column, the key of a row
\* does not read its sample attributes: the rows of sample "S" carry one
\* measurement and the rows of sample "SA" none.  Without it they vary freely.
RowsOf(i, hasParent) ==
    IF hasParent
      THEN { Sample(n, p, pa, IF n = <<"S">> THEN GrainOf2 ELSE <<>>, f) :
               n \in SampleNames,
               p \in {Empty} \cup { WorksheetNames[j] : j \in 1..Len(WorksheetNames) },
               pa \in ProcessAttrChoices,
               f \in FileChoices }
      ELSE { Sample(n, Empty, pa, a, f) :
               n \in SampleNames,
               pa \in ProcessAttrChoices,
               a \in SampleAttrChoices,
               f \in FileChoices }

\* the worksheet sets with both worksheets, in workbook order, of at most
\* MaxTotalRows rows
EnumeratedWorksheets(hasParent) ==
    UNION { UNION { { << Worksheet(WorksheetNames[1], r1), Worksheet(WorksheetNames[2], r2) >> :
                        r1 \in [1..n1 -> RowsOf(1, hasParent)],
                        r2 \in [1..n2 -> RowsOf(2, hasParent)] } :
                    n2 \in 0..(MaxTotalRows - n1) } :
            n1 \in 0..MaxTotalRows }

----------------------------------------------------------------------------
(* Rows of the worksheets *)

\* a *model.Sample is a row of a worksheet: worksheet index and row index
Ref(i, j) == [ws |-> i, row |-> j]

RECURSIVE RefsFrom(_, _, _)
RefsFrom(ws, i, j) ==
    IF i > Len(ws) THEN <<>>
    ELSE IF j > Len(ws[i].Samples) THEN RefsFrom(ws, i + 1, 1)
    ELSE <<Ref(i, j)>> \o RefsFrom(ws, i, j + 1)

\* the rows in the order of the two nested range loops
AllRefs(ws) == RefsFrom(ws, 1, 1)

Row(ws, r) == ws[r.ws].Samples[r.row]

----------------------------------------------------------------------------
(* Keywords *)

\* no error: nil
NoError == "nil"

\* ValidateKeywords has not been called since the maps last changed
Unchecked == "unchecked"

\* the default keyword maps
DefaultKeywords ==
    [sample  |-> {"s", "sample", "sample attribute"},
     process |-> {"p", "process"},
     file    |-> {"f", "file", "files"},
     err     |-> Unchecked]

\* overlappingKeywords: in how many of the three maps each keyword occurs
keywordCounts(kw) ==
    [key \in kw.process \cup kw.sample \cup kw.file |->
        (IF key \in kw.process THEN 1 ELSE 0) + (IF key \in kw.sample THEN 1 ELSE 0)
          + (IF key \in kw.file THEN 1 ELSE 0)]

\* faulty variant: only a keyword of all three maps counts as overlapping
overlappingInAll(kw) ==
    \E key \in DOMAIN keywordCounts(kw) : keywordCounts(kw)[key] = 3

overlappingKeywords(kw) ==
    \E key \in DOMAIN keywordCounts(kw) : keywordCounts(kw)[key] # 1

\* ValidateKeywords: the error it returns
ValidateKeywords(kw) ==
    IF kw.process = {} THEN "there must be at least 1 process keyword"
    ELSE IF kw.sample = {} THEN "there must be at least 1 sample keyword"
    ELSE IF kw.file = {} THEN "there must be at least 1 file keyword"
    ELSE IF overlappingKeywords(kw) THEN "there are overlapping keywords"
    ELSE NoError

----------------------------------------------------------------------------
(* Loader: parent validation *)

\* createKnownProcessesMap: the names of the loaded worksheets
createKnownProcessesMap(ws) == { ws[i].Name : i \in 1..Len(ws) }

\* one error of validateParents, by what its message names
ParentError(kind, worksheet, sample) ==
    [kind |-> kind, worksheet |-> worksheet.Name, sample |-> sample.Name,
     parent |-> sample.Parent]

\* faulty variant: a parent equal to the row's own worksheet is let through
parentErrorsUnknownOnly(ws, r) ==
    LET sample == Row(ws, r)
    IN  IF sample.Parent # Empty /\ sample.Parent \notin createKnownProcessesMap(ws)
          THEN << ParentError("unknown", ws[r.ws], sample) >>
          ELSE <<>>

\* the body of the loops of validateParents: the errors one row adds
parentErrors(ws, r) ==
    LET sample == Row(ws, r)
    IN  IF sample.Parent = Empty THEN <<>>
        ELSE IF sample.Parent = ws[r.ws].Name
          THEN << ParentError("self", ws[r.ws], sample) >>
        ELSE IF sample.Parent \notin createKnownProcessesMap(ws)
          THEN << ParentError("unknown", ws[r.ws], sample) >>
        ELSE <<>>

\* faulty variant: the loops end at the first error
RECURSIVE validateParentsFirst(_, _, _)
validateParentsFirst(ws, refs, foundErrors) ==
    IF refs = <<>> \/ foundErrors # <<>> THEN foundErrors
    ELSE validateParentsFirst(ws, Tail(refs), foundErrors \o parentErrors(ws, Head(refs)))

\* the loops of validateParents: multierror.Append collects every error
RECURSIVE validateParentsFrom(_, _, _)
validateParentsFrom(ws, refs, foundErrors) ==
    IF refs = <<>> THEN foundErrors
    ELSE validateParentsFrom(ws, Tail(refs), foundErrors \o parentErrors(ws, Head(refs)))

\* validateParents: the errors of the multierror it returns, <<>> for nil
validateParents(ws) == validateParentsFrom(ws, AllRefs(ws), <<>>)

----------------------------------------------------------------------------
(* Workflow builder *)

\* fmt.Sprintf("%#v", attr.Value): the Go syntax of the value map
FmtValue(v) == <<"{", v, "}">>

RECURSIVE AttrsKey(_)
AttrsKey(attrs) ==
    IF attrs = <<>> THEN <<>>
    ELSE AttrsKey(SubSeq(attrs, 1, Len(attrs) - 1))
           \o attrs[Len(attrs)].Unit \o FmtValue(attrs[Len(attrs)].Value)

\* sha256 of the key text, in hex: a digest, equal for equal texts and taken
\* to be free of collisions
Sha256Hex(text) == <<"sha256">> \o text

\* makeSampleInstanceKey
makeSampleInstanceKey(sample, starting, hasParent) ==
    Sha256Hex(sample.Name \o starting \o AttrsKey(sample.ProcessAttrs)
              \o (IF hasParent THEN <<>> ELSE AttrsKey(sample.Attributes)))

\* identities of the WorkflowProcess nodes: the roots by the sample name of
\* their member, the unique process instances by their key
RootId(name) == [kind |-> "root", key |-> name]
InstId(key) == [kind |-> "inst", key |-> key]

\* wp.Process == nil and wp.Worksheet == nil
NoProcess == 0

NoWorksheet == 0

\* newWorkflowProcess with the fields the callers set
newWorkflowProcess(worksheet, key, sampleName, sample) ==
    [Worksheet |-> worksheet, Key |-> key, SampleName |-> sampleName,
     Samples |-> <<sample>>, Out |-> <<>>, Process |-> NoProcess,
     To |-> <<>>, From |-> <<>>]

\* first loop of createSampleProcesses: existingSamples, name -> first row
RECURSIVE ExistingSamplesFrom(_, _, _)
ExistingSamplesFrom(ws, refs, acc) ==
    IF refs = <<>> THEN acc
    ELSE LET name == Row(ws, Head(refs)).Name
         IN  ExistingSamplesFrom(ws, Tail(refs),
                 IF name \in DOMAIN acc THEN acc ELSE acc @@ (name :> Head(refs)))

\* faulty variant: a later row of a name replaces the earlier one
RECURSIVE ExistingSamplesLast(_, _, _)
ExistingSamplesLast(ws, refs, acc) ==
    IF refs = <<>> THEN acc
    ELSE LET name == Row(ws, Head(refs)).Name
         IN  ExistingSamplesLast(ws, Tail(refs),
                 (name :> Head(refs)) @@ acc)

existingSamplesLastRow(ws) == ExistingSamplesLast(ws, AllRefs(ws), <<>>)

existingSamplesOf(ws) == ExistingSamplesFrom(ws, AllRefs(ws), <<>>)

\* the orders in which a range over a map may visit its keys
Orders(S) == { o \in [1..Cardinality(S) -> S] :
                 \A a, b \in 1..Cardinality(S) : a # b => o[a] # o[b] }


\* second loop of createSampleProcesses: one root per name of existingSamples,
\* appended to w.root in the order the map is ranged over
rootNode(existing, name) == newWorkflowProcess(NoWorksheet, Empty, Empty, existing[name])

\* createUniqueProcessesMap, one row: insert a node or append the row to it
addUniqueProcess(ws, ns, r, hasParent) ==
    LET sample == Row(ws, r)
        key    == makeSampleInstanceKey(sample, ws[r.ws].Name, hasParent)
        id     == InstId(key)
    IN  IF id \notin DOMAIN ns
          THEN ns @@ (id :> newWorkflowProcess(r.ws, key, sample.Name, r))
          ELSE [ns EXCEPT ![id].Samples = Append(@, r)]

RECURSIVE createUniqueProcessesMap(_, _, _, _)
createUniqueProcessesMap(ws, ns, refs, hasParent) ==
    IF refs = <<>> THEN ns
    ELSE createUniqueProcessesMap(ws, addUniqueProcess(ws, ns, Head(refs), hasParent),
                                  Tail(refs), hasParent)

NoNode == [kind |-> "nil", key |-> Empty]

\* findProcessFromSampleInWorksheet
findProcessFromSampleInWorksheet(ws, ns, r, hasParent) ==
    LET id == InstId(makeSampleInstanceKey(Row(ws, r), ws[r.ws].Name, hasParent))
    IN  IF id \in DOMAIN ns THEN id ELSE NoNode

\* findMatchingCreateSampleProcess: the first root with a member of that name
findMatchingCreateSampleProcess(ws, ns, rootSeq, sampleName) ==
    LET hits == { k \in 1..Len(rootSeq) :
                    \E m \in 1..Len(ns[rootSeq[k]].Samples) :
                        Row(ws, ns[rootSeq[k]].Samples[m]).Name = sampleName }
    IN  IF hits = {} THEN NoNode
        ELSE rootSeq[CHOOSE k \in hits : \A h \in hits : k <= h]

\* findMatchingEntry: the first row of that name in the first worksheet of
\* that name that has one, looked up by its key
findMatchingEntry(ws, ns, sampleName, worksheetName, hasParent) ==
    LET refs == AllRefs(ws)
        hits == { k \in 1..Len(refs) :
                    /\ ws[refs[k].ws].Name = worksheetName
                    /\ Row(ws, refs[k]).Name = sampleName }
    IN  IF hits = {} THEN NoNode
        ELSE LET r  == refs[CHOOSE k \in hits : \A h \in hits : k <= h]
                 id == InstId(makeSampleInstanceKey(Row(ws, r), worksheetName, hasParent))
             IN  IF id \in DOMAIN ns THEN id ELSE NoNode

\* faulty variant: only the link from the consumer to its supplier is set
wireProcessesFromOnly(ns, fromProcess, toProcess) ==
    [ns EXCEPT ![toProcess].From = Append(@, fromProcess)]

\* wireProcessesTogetherFromTo
wireProcessesTogetherFromTo(ns, fromProcess, toProcess) ==
    LET n1 == [ns EXCEPT ![toProcess].From = Append(@, fromProcess)]
    IN  [n1 EXCEPT ![fromProcess].To = Append(@, toProcess)]

\* wireupWorkflow, one row
wireRow(ws, ns, rootSeq, r, hasParent) ==
    LET sample == Row(ws, r)
        target == findProcessFromSampleInWorksheet(ws, ns, r, hasParent)
        parentProcess ==
            IF sample.Parent = Empty
              THEN findMatchingCreateSampleProcess(ws, ns, rootSeq, sample.Name)
              ELSE findMatchingEntry(ws, ns, sample.Name, sample.Parent, hasParent)
    IN  IF target = NoNode \/ parentProcess = NoNode THEN ns
        ELSE wireProcessesTogetherFromTo(ns, parentProcess, target)

RECURSIVE wireupWorkflow(_, _, _, _, _)
wireupWorkflow(ws, ns, rootSeq, refs, hasParent) ==
    IF refs = <<>> THEN ns
    ELSE wireupWorkflow(ws, wireRow(ws, ns, rootSeq, Head(refs), hasParent),
                        rootSeq, Tail(refs), hasParent)


----------------------------------------------------------------------------
(* Inputs of a load *)

\* worksheet "Heat" of the documentation: S1 and S2 at (300, 400), S3 at (500, 50)
HeatAttrs(time, temp) ==
    << Attr(<<"T", "i", "m", "e">>, <<"s">>, time), Attr(<<"T", "e", "m", "p">>, <<"c">>, temp) >>

GrainAttr(v) == << Attr(<<"G", "r", "a", "i", "n">>, <<"m", "m">>, v) >>

HeatWorksheets ==
    << Worksheet(<<"H", "e", "a", "t">>,
         << Sample(<<"S", "1">>, Empty, HeatAttrs("300", "400"), GrainAttr("2"), <<>>),
            Sample(<<"S", "2">>, Empty, HeatAttrs("300", "400"), GrainAttr("1"), <<>>),
            Sample(<<"S", "3">>, Empty, HeatAttrs("500", "50"), GrainAttr("1"), <<>>) >>) >>

\* sample S with two rows of one key in worksheet A, one fed by the root and
\* one by worksheet AA, whose row is fed by the root
TempAttr == << Attr(<<"T">>, <<"c">>, "400") >>

MergeWorksheets ==
    << Worksheet(WorksheetNames[1],
         << Sample(<<"S">>, Empty, TempAttr, GrainOf2, <<>>),
            Sample(<<"S">>, WorksheetNames[2], TempAttr, GrainOf2, <<>>) >>),
       Worksheet(WorksheetNames[2],
         << Sample(<<"S">>, Empty, TempAttr, GrainOf2, <<>>) >>) >>

\* the same, with the row of worksheet AA fed by worksheet A
LoopWorksheets ==
    << Worksheet(WorksheetNames[1],
         << Sample(<<"S">>, Empty, TempAttr, GrainOf2, <<>>),
            Sample(<<"S">>, WorksheetNames[2], TempAttr, GrainOf2, <<>>) >>),
       Worksheet(WorksheetNames[2],
         << Sample(<<"S">>, WorksheetNames[1], TempAttr, GrainOf2, <<>>) >>) >>

\* sample S measured twice by one process: two rows of one key in worksheet
\* A, with grain sizes 2 and 1
RepeatWorksheets ==
    << Worksheet(WorksheetNames[1],
         << Sample(<<"S">>, Empty, TempAttr, GrainAttr("2"), <<>>),
            Sample(<<"S">>, Empty, TempAttr, GrainAttr("1"), <<>>) >>) >>

\* worksheet A with the process attribute columns T(c) and P(c): the first
\* row has a value in column T only, the second in column P only
PressAttr == << Attr(<<"P">>, <<"c">>, "400") >>

TwoColumnWorksheets ==
    << Worksheet(WorksheetNames[1],
         << Sample(<<"S">>, Empty, TempAttr, GrainOf2, <<>>),
            Sample(<<"S">>, Empty, PressAttr, GrainOf2, <<>>) >>) >>

\* what cliCmdLoad hands to Apply: worksheets that loaded without error
LoadedWorksheets(hasParent) ==
    { ws \in EnumeratedWorksheets(hasParent) \cup
             (IF hasParent
                THEN {HeatWorksheets, MergeWorksheets, LoopWorksheets,
                      RepeatWorksheets, TwoColumnWorksheets}
                ELSE {}) :
        validateParents(ws) = <<>> }

----------------------------------------------------------------------------
(* State *)

VARIABLES
    worksheets,       \* the loaded worksheets handed to Apply
    HasParent,        \* Creater.HasParent, the has-parent flag
    pc,               \* position of Apply
    ExperimentID,     \* Creater.ExperimentID, 0 until the experiment exists
    existingSamples,  \* Workflow.existingSamples
    root,             \* Workflow.root
    nodes,            \* the WorkflowProcess nodes, by identity
    rootIdx,          \* index of the range loop of Apply over wf.root
    stack,            \* the frames of the createWorkflowSteps recursion
    calls,            \* the remote calls issued so far, with their outcome
    nextID,           \* the next identifier the server hands out
    result,           \* what Apply returned: "none", "nil" or "err"
    keywords,         \* the keyword maps of package spreadsheet
    loader,           \* a call of Load: its position, inputs and results
    conv,             \* a cellConverter and the conversion it performs
    client,           \* createAPIClient: the settings it reads and its result
    rowp,             \* a rowProcessor: the header and the cell it processes
    meas              \* a call of createAttributeMeasurements

\* the state of Creater.Apply and of the workflow it builds
applyVars == << worksheets, HasParent, pc, ExperimentID, existingSamples, root, nodes,
                rootIdx, stack, calls, nextID, result >>

\* the state of the other components
sideVars == << keywords, loader, conv, client, rowp, meas >>

vars == << applyVars, sideVars >>

\* Load, cellToJSONMap and createAPIClient are not running
Idle == [pc |-> "idle"]

SideIdle ==
    /\ keywords = DefaultKeywords /\ loader = Idle /\ conv = Idle /\ client = Idle
    /\ rowp = Idle /\ meas = Idle

NoRef == Ref(0, 0)

\* one remote call as the log keeps it
Call(op, node, ok, process, sample, row, ret) ==
    [op |-> op, node |-> node, ok |-> ok, process |-> process,
     sample |-> sample, row |-> row, ret |-> ret,
     inProgress |-> (op = "createExperiment")]

\* mcapi.Sample as far as the materializer reads it
ServerSample(id, ps, name) == [ID |-> id, PropertySetID |-> ps, Name |-> name]

NoSample == ServerSample(0, 0, Empty)

Init ==
    /\ HasParent \in BOOLEAN
    /\ worksheets \in LoadedWorksheets(HasParent)
    /\ pc = "start"
    /\ ExperimentID = 0
    /\ existingSamples = <<>>
    /\ root = <<>>
    /\ nodes = <<>>
    /\ rootIdx = 1
    /\ stack = <<>>
    /\ calls = <<>>
    /\ nextID = 1
    /\ result = "none"
    /\ SideIdle


----------------------------------------------------------------------------
(* Creater.Apply *)

Log(c) == calls' = Append(calls, c)

\* Apply step 1, createExperiment: on an error Apply returns nil
CreateExperiment ==
    /\ pc = "start"
    /\ \E ok \in BOOLEAN :
         /\ Log(Call("createExperiment", NoNode, ok, NoProcess, NoSample, NoRef,
                     IF ok THEN nextID ELSE 0))
         /\ IF ok
              THEN /\ ExperimentID' = nextID
                   /\ nextID' = nextID + 1
                   /\ pc' = "construct"
                   /\ result' = result
              ELSE /\ pc' = "done"
                   /\ result' = "nil"
                   /\ UNCHANGED << ExperimentID, nextID >>
    /\ UNCHANGED << sideVars, worksheets, HasParent, existingSamples, root, nodes, rootIdx, stack >>

\* Apply step 2, constructWorkflow: createSampleProcesses, then
\* createUniqueProcessesMap, then wireupWorkflow
ConstructWorkflow ==
    /\ pc = "construct"
    /\ \E order \in Orders(DOMAIN existingSamplesOf(worksheets)) :
         LET existing == existingSamplesOf(worksheets)
             rootSeq  == [k \in 1..Len(order) |-> RootId(order[k])]
             roots    == [id \in { rootSeq[k] : k \in 1..Len(rootSeq) } |->
                            rootNode(existing, id.key)]
             unique   == createUniqueProcessesMap(worksheets, roots, AllRefs(worksheets), HasParent)
         IN  /\ existingSamples' = existing
             /\ root' = rootSeq
             /\ nodes' = wireupWorkflow(worksheets, unique, rootSeq, AllRefs(worksheets), HasParent)
    /\ pc' = "walk"
    /\ rootIdx' = 1
    /\ UNCHANGED << sideVars, worksheets, HasParent, ExperimentID, stack, calls, nextID, result >>

\* a frame of createWorkflowSteps(wp)
Frame(wp, at, inputs, i, t, s) ==
    [wp |-> wp, at |-> at, inputs |-> inputs, i |-> i, t |-> t, s |-> s]

EnterFrame(wp) == Frame(wp, "enter", <<>>, 1, 1, NoSample)

Top == stack[Len(stack)]

SetTop(f) == [stack EXCEPT ![Len(stack)] = f]

\* Apply step 3: the range loop over wf.root calls createWorkflowSteps
ApplyNextRoot ==
    /\ pc = "walk"
    /\ stack = <<>>
    /\ rootIdx <= Len(root)
    /\ stack' = << EnterFrame(root[rootIdx]) >>
    /\ UNCHANGED << sideVars, worksheets, HasParent, pc, ExperimentID, existingSamples, root, nodes,
                    rootIdx, calls, nextID, result >>


----------------------------------------------------------------------------
(* Creater.createWorkflowSteps *)

\* faulty variant: the guard of the process branch always passes
processIsNilAlways(ns, wp) == TRUE

\* the guard of the process branch: wp.Process == nil
processIsNil(ns, wp) == ns[wp].Process = NoProcess

\* faulty variant: the created process is not stored in the node
setProcessDropped(ns, wp, p) == ns

\* wp.Process = p
setProcess(ns, wp, p) == [ns EXCEPT ![wp].Process = p]

\* wp.Out = append(wp.Out, sample)
appendOut(ns, wp, sample) == [ns EXCEPT ![wp].Out = Append(@, sample)]

RECURSIVE FlattenOut(_, _)
FlattenOut(ns, from) ==
    IF from = <<>> THEN <<>>
    ELSE ns[Head(from)].Out \o FlattenOut(ns, Tail(from))

\* faulty variant: the input samples are the samples the roots created
getInputSamplesCreated(ns, wp) == FlattenOut(ns, root)

\* getInputSamples: the Out lists of the nodes of wp.From, in order
getInputSamples(ns, wp) == FlattenOut(ns, ns[wp].From)

\* findSampleInWorksheet: the first row of the worksheet with that name
findSampleInWorksheet(ws, sampleName, w) ==
    LET hits == { j \in 1..Len(ws[w].Samples) : ws[w].Samples[j].Name = sampleName }
    IN  IF hits = {} THEN NoRef
        ELSE Ref(w, CHOOSE j \in hits : \A h \in hits : j <= h)

\* the sample the server returns for a transforming attach: the same sample
\* under a new property set
transformed(sample, ps) == ServerSample(sample.ID, ps, sample.Name)

\* faulty variant: the caller drops the error of the recursive call and goes on
returnErrorDropped(stk) == SubSeq(stk, 1, Len(stk) - 1)

\* "return err" in createWorkflowSteps: every caller returns it in turn, up to Apply
returnError(stk) == <<>>

\* the loop over inputSamples moves on, or the frame goes on to wp.To
nextInput(f) ==
    IF f.i + 1 > Len(f.inputs)
      THEN [f EXCEPT !.at = "to", !.i = f.i + 1]
      ELSE [f EXCEPT !.at = "inputs", !.i = f.i + 1]

Failed ==
    /\ stack' = returnError(stack)
    /\ pc' = IF stack' = <<>> THEN "failed" ELSE pc
    /\ UNCHANGED << nodes, nextID >>

\* root branch: createSample for the single member, appended to wp.Out
StepCreateSample ==
    /\ pc = "walk" /\ stack # <<>> /\ Top.at = "enter"
    /\ nodes[Top.wp].Worksheet = NoWorksheet
    /\ LET wp   == Top.wp
           name == Row(worksheets, nodes[wp].Samples[1]).Name
       IN  \E ok \in BOOLEAN :
             LET sample == ServerSample(nextID, nextID + 1, name)
             IN  /\ Log(Call("createSample", wp, ok, NoProcess, NoSample,
                             nodes[wp].Samples[1], IF ok THEN sample ELSE NoSample))
                 /\ IF ok
                      THEN /\ nodes' = appendOut(nodes, wp, sample)
                           /\ nextID' = nextID + 2
                           /\ stack' = SetTop([Top EXCEPT !.at = "to"])
                           /\ pc' = pc
                      ELSE Failed
    /\ UNCHANGED << sideVars, worksheets, HasParent, ExperimentID, existingSamples, root, rootIdx, result >>

\* process branch with wp.Process == nil: createProcessWithAttrs, then getInputSamples
StepCreateProcess ==
    /\ pc = "walk" /\ stack # <<>> /\ Top.at = "enter"
    /\ nodes[Top.wp].Worksheet # NoWorksheet
    /\ processIsNil(nodes, Top.wp)
    /\ LET wp == Top.wp
       IN  \E ok \in BOOLEAN :
             /\ Log(Call("createProcess", wp, ok, IF ok THEN nextID ELSE NoProcess, NoSample,
                         nodes[wp].Samples[1], NoSample))
             /\ IF ok
                  THEN /\ nodes' = setProcess(nodes, wp, nextID)
                       /\ nextID' = nextID + 1
                       /\ stack' = SetTop(nextInput([Top EXCEPT
                                       !.inputs = getInputSamples(nodes', wp), !.i = 0]))
                       /\ pc' = pc
                  ELSE Failed
    /\ UNCHANGED << sideVars, worksheets, HasParent, ExperimentID, existingSamples, root, rootIdx, result >>

\* process branch with wp.Process already set: nothing but the walk over wp.To
StepProcessExists ==
    /\ pc = "walk" /\ stack # <<>> /\ Top.at = "enter"
    /\ nodes[Top.wp].Worksheet # NoWorksheet
    /\ ~processIsNil(nodes, Top.wp)
    /\ stack' = SetTop([Top EXCEPT !.at = "to"])
    /\ UNCHANGED << sideVars, worksheets, HasParent, pc, ExperimentID, existingSamples, root, nodes,
                    rootIdx, calls, nextID, result >>

\* loop body, first call: addSampleAndFilesToProcess for the next input sample
StepAddSampleAndFiles ==
    /\ pc = "walk" /\ stack # <<>> /\ Top.at = "inputs"
    /\ LET wp     == Top.wp
           sample == Top.inputs[Top.i]
           worksheetSample == findSampleInWorksheet(worksheets, sample.Name, nodes[wp].Worksheet)
       IN  \E ok \in BOOLEAN :
             LET s == transformed(sample, nextID)
             IN  /\ Log(Call("addSampleAndFilesToProcess", wp, ok, nodes[wp].Process, sample,
                             worksheetSample, IF ok THEN s ELSE NoSample))
                 /\ IF ok
                      THEN /\ nodes' = appendOut(nodes, wp, s)
                           /\ nextID' = nextID + 1
                           /\ stack' = SetTop(IF worksheetSample # NoRef
                                                THEN [Top EXCEPT !.at = "meas", !.s = s]
                                                ELSE nextInput(Top))
                           /\ pc' = pc
                      ELSE Failed
    /\ UNCHANGED << sideVars, worksheets, HasParent, ExperimentID, existingSamples, root, rootIdx, result >>

\* loop body, second call: addMeasurements when a worksheet row was found
StepAddMeasurements ==
    /\ pc = "walk" /\ stack # <<>> /\ Top.at = "meas"
    /\ LET wp     == Top.wp
           sample == Top.inputs[Top.i]
           worksheetSample == findSampleInWorksheet(worksheets, sample.Name, nodes[wp].Worksheet)
       IN  \E ok \in BOOLEAN :
             /\ Log(Call("addMeasurements", wp, ok, nodes[wp].Process, Top.s,
                         worksheetSample, NoSample))
             /\ IF ok
                  THEN /\ stack' = SetTop(nextInput(Top))
                       /\ pc' = pc
                       /\ UNCHANGED << nodes, nextID >>
                  ELSE Failed
    /\ UNCHANGED << sideVars, worksheets, HasParent, ExperimentID, existingSamples, root, rootIdx, result >>

\* the loop over wp.To calls createWorkflowSteps(next)
StepRecurse ==
    /\ pc = "walk" /\ stack # <<>> /\ Top.at = "to"
    /\ Top.t <= Len(nodes[Top.wp].To)
    /\ Len(stack) < MaxDepth
    /\ stack' = Append(SetTop([Top EXCEPT !.t = Top.t + 1]),
                       EnterFrame(nodes[Top.wp].To[Top.t]))
    /\ UNCHANGED << sideVars, worksheets, HasParent, pc, ExperimentID, existingSamples, root, nodes,
                    rootIdx, calls, nextID, result >>

\* the loop over wp.To is over: return nil to the caller
StepReturn ==
    /\ pc = "walk" /\ stack # <<>> /\ Top.at = "to"
    /\ Top.t > Len(nodes[Top.wp].To)
    /\ stack' = SubSeq(stack, 1, Len(stack) - 1)
    /\ rootIdx' = IF Len(stack) = 1 THEN rootIdx + 1 ELSE rootIdx
    /\ UNCHANGED << sideVars, worksheets, HasParent, pc, ExperimentID, existingSamples, root, nodes,
                    calls, nextID, result >>

\* the recursion runs out of stack: the Go runtime ends the program with
\* "fatal error: stack overflow", and Apply never returns
StackOverflow ==
    /\ pc = "walk" /\ stack # <<>> /\ Top.at = "to"
    /\ Top.t <= Len(nodes[Top.wp].To)
    /\ Len(stack) >= MaxDepth
    /\ pc' = "overflow"
    /\ UNCHANGED << sideVars, worksheets, HasParent, ExperimentID, existingSamples, root, nodes,
                    rootIdx, stack, calls, nextID, result >>

\* faulty variant: the error is returned without clearing the progress flag
ApplyFailedNoClear ==
    /\ pc = "failed"
    /\ result' = "err"
    /\ pc' = "done"
    /\ UNCHANGED << sideVars, worksheets, HasParent, ExperimentID, existingSamples, root, nodes,
                    rootIdx, stack, calls, nextID >>

\* createWorkflowSteps returned an error to Apply: clear the progress flag,
\* ignoring the outcome, and return the error
ApplyFailed ==
    /\ pc = "failed"
    /\ \E ok \in BOOLEAN :
         Log(Call("updateExperimentProgressStatus", NoNode, ok, NoProcess, NoSample, NoRef, NoSample))
    /\ result' = "err"
    /\ pc' = "done"
    /\ UNCHANGED << sideVars, worksheets, HasParent, ExperimentID, existingSamples, root, nodes,
                    rootIdx, stack, nextID >>

\* every root is done: clear the progress flag, ignoring the outcome, return nil
ApplyFinish ==
    /\ pc = "walk" /\ stack = <<>>
    /\ rootIdx > Len(root)
    /\ \E ok \in BOOLEAN :
         Log(Call("updateExperimentProgressStatus", NoNode, ok, NoProcess, NoSample, NoRef, NoSample))
    /\ result' = "nil"
    /\ pc' = "done"
    /\ UNCHANGED << sideVars, worksheets, HasParent, ExperimentID, existingSamples, root, nodes,
                    rootIdx, stack, nextID >>

Next ==
    \/ CreateExperiment
    \/ ConstructWorkflow
    \/ ApplyNextRoot
    \/ StepCreateSample
    \/ StepCreateProcess
    \/ StepProcessExists
    \/ StepAddSampleAndFiles
    \/ StepAddMeasurements
    \/ StepRecurse
    \/ StepReturn
    \/ StackOverflow
    \/ ApplyFailed
    \/ ApplyFinish

Spec == Init /\ [][Next]_vars


----------------------------------------------------------------------------
(* Vocabulary of the properties *)

\* constructWorkflow has run
Constructed == pc \in {"walk", "failed", "overflow"} \/ (pc = "done" /\ ExperimentID # 0)

\* Apply returned after the whole walk
Succeeded == pc = "done" /\ ExperimentID # 0 /\ result = "nil"

Range(f) == { f[k] : k \in DOMAIN f }

Roots == { n \in DOMAIN nodes : n.kind = "root" }

Instances == { n \in DOMAIN nodes : n.kind = "inst" }

\* the calls of createWorkflowSteps
StepOps == {"createSample", "createProcess", "addSampleAndFilesToProcess", "addMeasurements"}

\* the calls that create output samples of a node
CreatingOps == {"createSample", "addSampleAndFilesToProcess"}

CallsOf(op) == { i \in 1..Len(calls) : calls[i].op = op }

CallsOfNode(op, n) == { i \in CallsOf(op) : calls[i].node = n }

\* the nodes reachable from n over To edges in one or more steps
RECURSIVE ReachFrom(_, _)
ReachFrom(frontier, seen) ==
    LET next == UNION { Range(nodes[n].To) : n \in frontier } \ seen
    IN  IF next = {} THEN seen ELSE ReachFrom(next, seen \cup next)

Acyclic == \A n \in DOMAIN nodes : n \notin ReachFrom({n}, {})

----------------------------------------------------------------------------
(* C1 *)

\* every process instance holds rows of its own worksheet and sample only
SingleOrigin ==
    \A n \in Instances : \A k \in 1..Len(nodes[n].Samples) :
        /\ nodes[n].Samples[k].ws = nodes[n].Worksheet
        /\ Row(worksheets, nodes[n].Samples[k]).Name = nodes[n].SampleName

\* C1: for every edge supplier -> consumer, every call that creates output
\* samples of the supplier comes before every call for the consumer; stated
\* for the worksheet sets whose graph is acyclic and whose keys do not collide
C1_SuppliersBeforeConsumers ==
    (Acyclic /\ SingleOrigin) =>
        \A t \in DOMAIN nodes : \A s \in Range(nodes[t].From) :
            \A i, j \in 1..Len(calls) :
                (calls[i].node = s /\ calls[i].op \in CreatingOps /\ calls[j].node = t)
                    => i < j


----------------------------------------------------------------------------
(* C2 *)

\* C2: every add-sample-and-files and add-measurements call carries a process
\* id that an earlier successful create-process call for the same node
\* returned; none carries the empty Process slot
C2_AttachAfterCreateProcess ==
    \A j \in CallsOf("addSampleAndFilesToProcess") \cup CallsOf("addMeasurements") :
        /\ calls[j].process # NoProcess
        /\ \E i \in CallsOfNode("createProcess", calls[j].node) :
              i < j /\ calls[i].ok /\ calls[i].process = calls[j].process

\* an add-measurements call has been issued for a process instance
C2_Witness ==
    \E j \in CallsOf("addMeasurements") : calls[j].node \in Instances /\ calls[j].ok

----------------------------------------------------------------------------
(* C3 *)

\* the first visit of node n has left its own calls behind
Settled(n) ==
    /\ \E i \in 1..Len(calls) : calls[i].node = n
    /\ ~(stack # <<>> /\ Top.wp = n /\ Top.at \in {"inputs", "meas"})

C3_AtMostOnce ==
    /\ \A n \in Roots : Cardinality(CallsOfNode("createSample", n)) <= 1
    /\ Succeeded => \A n \in Roots : Cardinality(CallsOfNode("createSample", n)) = 1
    /\ \A n \in Instances : Cardinality(CallsOfNode("createProcess", n)) <= 1
    /\ \A n \in DOMAIN nodes : CallsOfNode("createSample", n) # {} => n \in Roots

C3_SlotsFrozen ==
    \A n \in DOMAIN nodes :
        Settled(n) => /\ nodes'[n].Process = nodes[n].Process
                      /\ nodes'[n].Out = nodes[n].Out

\* C3: create-sample is issued once per root, create-process at most once per
\* process instance, and once the visit that fills a node's Process and Out
\* is over no later step changes them
C3_NodeProcessedOnce == [](C3_AtMostOnce) /\ [][C3_SlotsFrozen]_vars

\* a process instance whose Process is set is entered again
C3_Witness ==
    /\ stack # <<>> /\ Top.at = "enter"
    /\ Top.wp \in Instances
    /\ nodes[Top.wp].Process # NoProcess
    /\ nodes[Top.wp].Out # <<>>


----------------------------------------------------------------------------
(* C4 *)

\* worksheet a holds one row of a sample with empty parent, worksheet b one
\* row of the same sample with parent a, and there is no other row
ChainInput(a, b) ==
    /\ Len(worksheets) = 2 /\ a # b
    /\ Len(worksheets[a].Samples) = 1 /\ Len(worksheets[b].Samples) = 1
    /\ worksheets[a].Samples[1].Parent = Empty
    /\ worksheets[b].Samples[1].Parent = worksheets[a].Name
    /\ worksheets[b].Samples[1].Name = worksheets[a].Samples[1].Name

ChainHolds(a, b) ==
    LET R == RootId(worksheets[a].Samples[1].Name)
        A == InstId(makeSampleInstanceKey(worksheets[a].Samples[1], worksheets[a].Name, HasParent))
        B == InstId(makeSampleInstanceKey(worksheets[b].Samples[1], worksheets[b].Name, HasParent))
    IN  Constructed =>
          /\ root = <<R>> /\ DOMAIN nodes = {R, A, B} /\ A # B
          /\ nodes[R].From = <<>> /\ nodes[R].To = <<A>>
          /\ nodes[A].From = <<R>> /\ nodes[A].To = <<B>>
          /\ nodes[B].From = <<A>> /\ nodes[B].To = <<>>
          /\ Cardinality(CallsOf("createSample")) <= 1
          /\ \A j \in CallsOfNode("addSampleAndFilesToProcess", B) :
               /\ \E i \in CallsOfNode("addSampleAndFilesToProcess", A) :
                    i < j /\ calls[i].ok /\ calls[j].sample = calls[i].ret
               /\ \A k \in CallsOf("createSample") : calls[j].sample # calls[k].ret
          /\ Succeeded =>
               /\ Cardinality(CallsOf("createSample")) = 1
               /\ Cardinality(CallsOfNode("addSampleAndFilesToProcess", A)) = 1
               /\ Cardinality(CallsOfNode("addSampleAndFilesToProcess", B)) = 1

\* C4: for a sample with an empty-parent row in one worksheet and a row in
\* another worksheet naming the first as parent, the graph is the chain
\* root -> first instance -> second instance, one create-sample is issued, and
\* the attach call of the second instance carries the sample the attach call
\* of the first returned, not the one create-sample returned
C4_ChainThreadsIdentity ==
    \A a, b \in 1..Len(worksheets) : ChainInput(a, b) => ChainHolds(a, b)

\* the chain was materialized to the end
C4_Witness ==
    /\ Succeeded
    /\ \E a, b \in 1..Len(worksheets) : ChainInput(a, b)
    /\ Cardinality(CallsOf("addSampleAndFilesToProcess")) = 2

----------------------------------------------------------------------------
(* C5 *)

Count(op) == Cardinality(CallsOf(op))

\* C5: worksheet "Heat" with S1 and S2 at (300, 400) and S3 at (500, 50)
\* gives 3 roots and 2 process nodes, with members (S1 row, S2 row) and
\* (S3 row), and a successful Apply issues 3 create-sample, 2 create-process,
\* 3 add-sample-and-files and 3 add-measurements calls
C5_HeatScenario ==
    (worksheets = HeatWorksheets /\ HasParent) =>
        /\ Constructed =>
             /\ Cardinality(Roots) = 3
             /\ Cardinality(Instances) = 2
             /\ \E n \in Instances : nodes[n].Samples = << Ref(1, 1), Ref(1, 2) >>
             /\ \E n \in Instances : nodes[n].Samples = << Ref(1, 3) >>
        /\ Succeeded =>
             /\ Count("createSample") = 3
             /\ Count("createProcess") = 2
             /\ Count("addSampleAndFilesToProcess") = 3
             /\ Count("addMeasurements") = 3

----------------------------------------------------------------------------
(* C6 *)

FailedStepCalls == { i \in 1..Len(calls) : calls[i].op \in StepOps /\ ~calls[i].ok }

AllOps == StepOps \cup {"createExperiment", "updateExperimentProgressStatus"}

\* C6: after a failed call of createWorkflowSteps no further create-sample,
\* create-process, add-sample-and-files or add-measurements call is issued,
\* the only later call is the clearing of the progress flag, and Apply
\* returns the error
C6_HaltOnError ==
    \A i \in FailedStepCalls :
        /\ \A j \in 1..Len(calls) :
             j > i => calls[j].op = "updateExperimentProgressStatus"
        /\ stack = <<>>
        /\ pc \in {"failed", "done"}
        /\ result # "nil"
        /\ pc = "done" => result = "err"
        /\ \A j \in 1..Len(calls) : calls[j].op \in AllOps

\* a call failed below the first level of the recursion, with nodes still to
\* visit, and Apply has returned
C6_Witness ==
    /\ pc = "done"
    /\ \E i \in FailedStepCalls :
         /\ calls[i].node \in Instances
         /\ \E n \in DOMAIN nodes : \A j \in 1..Len(calls) : calls[j].node # n


----------------------------------------------------------------------------
(* C7 *)

Last(q) == q[Len(q)]

ClearCalls == { i \in CallsOf("updateExperimentProgressStatus") : ~calls[i].inProgress }

\* C7 as stated: the experiment is created with in_progress set, and on every
\* return of Apply exactly one update-experiment-progress call clearing the
\* flag has been issued, as the last remote call
C7_ClearedOnEveryExit ==
    /\ calls # <<>> => calls[1].op = "createExperiment" /\ calls[1].inProgress
    /\ pc = "done" =>
         /\ Cardinality(ClearCalls) = 1
         /\ Last(calls).op = "updateExperimentProgressStatus"
         /\ ~Last(calls).inProgress

\* C7 amended: the same on every return of Apply after the experiment was
\* created; a failure of the clearing call leaves the result what the walk
\* made it; when create-experiment fails no clearing call is issued
C7_ClearedOnceExperimentExists ==
    /\ calls # <<>> => calls[1].op = "createExperiment" /\ calls[1].inProgress
    /\ (pc = "done" /\ ExperimentID # 0) =>
         /\ ClearCalls = {Len(calls)}
         /\ CallsOf("updateExperimentProgressStatus") = ClearCalls
         /\ result = IF FailedStepCalls = {} THEN "nil" ELSE "err"
    /\ (pc = "done" /\ ExperimentID = 0) =>
         /\ CallsOf("updateExperimentProgressStatus") = {}
         /\ Len(calls) = 1 /\ ~calls[1].ok
    /\ pc # "done" => CallsOf("updateExperimentProgressStatus") = {}

\* Apply returned an error after a failed step, and the clearing call failed too
C7_Witness ==
    /\ pc = "done" /\ result = "err"
    /\ Last(calls).op = "updateExperimentProgressStatus" /\ ~Last(calls).ok
    /\ FailedStepCalls # {}

----------------------------------------------------------------------------
(* C8 *)

\* C8: when a remote call of Apply failed, create-experiment included, Apply
\* returns an error; it returns nil only when the experiment was created and
\* every call of the walk succeeded
C8_ErrorOnAnyFailure ==
    pc = "done" =>
        /\ (\E i \in 1..Len(calls) :
               calls[i].op \in StepOps \cup {"createExperiment"} /\ ~calls[i].ok)
             => result = "err"
        /\ result = "nil" => ExperimentID # 0 /\ FailedStepCalls = {}

----------------------------------------------------------------------------
(* C9 *)

\* the process-attribute signature of a row: unit and value of each attribute
Signature(sample) ==
    [k \in 1..Len(sample.ProcessAttrs) |->
        << sample.ProcessAttrs[k].Unit, sample.ProcessAttrs[k].Value >>]

Triple(r) ==
    << Row(worksheets, r).Name, worksheets[r.ws].Name, Signature(Row(worksheets, r)) >>

NodeOfRow(r) ==
    CHOOSE n \in Instances : \E k \in 1..Len(nodes[n].Samples) : nodes[n].Samples[k] = r

\* C9: with the parent column, there are as many unique process instances as
\* distinct (sample name, worksheet name, process-attribute signature)
\* triples, and two rows share a node exactly when their triples are equal
C9_OneNodePerTriple ==
    (HasParent /\ Constructed) =>
        /\ Cardinality(Instances) = Cardinality({ Triple(r) : r \in Range(AllRefs(worksheets)) })
        /\ \A r1, r2 \in Range(AllRefs(worksheets)) :
             (NodeOfRow(r1) = NodeOfRow(r2)) <=> (Triple(r1) = Triple(r2))

----------------------------------------------------------------------------
(* C10 *)

RefsNamed(name) ==
    { k \in 1..Len(AllRefs(worksheets)) : Row(worksheets, AllRefs(worksheets)[k]).Name = name }

FirstRefNamed(name) ==
    AllRefs(worksheets)[CHOOSE k \in RefsNamed(name) : \A h \in RefsNamed(name) : k <= h]

NamesInRows == { Row(worksheets, r).Name : r \in Range(AllRefs(worksheets)) }

\* C10: after root discovery every sample name of a row has exactly one root,
\* whose single member is the first row of that name, and every root belongs
\* to a name of some row
C10_OneRootPerName ==
    Constructed =>
        /\ \A name \in NamesInRows :
             /\ Cardinality({ k \in 1..Len(root) : root[k] = RootId(name) }) = 1
             /\ nodes[RootId(name)].Samples = << FirstRefNamed(name) >>
             /\ nodes[RootId(name)].Worksheet = NoWorksheet
             /\ existingSamples[name] = FirstRefNamed(name)
        /\ \A k \in 1..Len(root) : root[k].key \in NamesInRows
        /\ Len(root) = Cardinality(NamesInRows)
        /\ Roots = Range(root)

\* a name with two rows, in different worksheets, has its root
C10_Witness ==
    /\ Constructed
    /\ \E name \in NamesInRows :
         /\ Cardinality({ AllRefs(worksheets)[k].ws : k \in RefsNamed(name) }) >= 2
         /\ \E k \in 1..Len(root) : root[k] = RootId(name)

----------------------------------------------------------------------------
(* C11 *)

\* C11: for every worksheet set that passes parent validation, the graph that
\* constructWorkflow builds is acyclic: no node reaches itself over To edges
C11_GraphAcyclic == Constructed => Acyclic

----------------------------------------------------------------------------
(* C19 *)

\* a node is entered again while a call of createWorkflowSteps for it is active
Reentered == \E i, j \in 1..Len(stack) : i < j /\ stack[i].wp = stack[j].wp

\* the stack is exhausted only by a recursion that goes round a cycle
OverflowOnlyOnCycle == pc = "overflow" => Reentered

\* C19: for every worksheet set that passes parent validation, Apply reaches
\* a terminal exit, every remote call returning: the recursion over To edges
\* never runs away, which is the one way the walk ends without Apply returning
C19_ApplyTerminates == pc # "overflow"

----------------------------------------------------------------------------
(* C20 *)

\* the successful attach calls of node t that carry the server sample
AttachCalls(t, sample) ==
    { j \in CallsOfNode("addSampleAndFilesToProcess", t) :
        calls[j].ok /\ calls[j].sample = sample }

\* C20: after a successful Apply, for every process instance T and every
\* supplier S in T.From, each sample of S.Out was attached to T's process by
\* exactly one add-sample-and-files call
C20_EachOutputAttachedOnce ==
    Succeeded =>
        \A t \in Instances : \A s \in Range(nodes[t].From) :
            \A k \in 1..Len(nodes[s].Out) :
                Cardinality(AttachCalls(t, nodes[s].Out[k])) = 1

----------------------------------------------------------------------------
(* C17 *)

\* the parent lookup of row r finds no supplier: the row names a parent
\* worksheet, and wireupWorkflow gets nil from findMatchingEntry
WiringFails(r) ==
    /\ Row(worksheets, r).Parent # Empty
    /\ findMatchingEntry(worksheets, nodes, Row(worksheets, r).Name,
                         Row(worksheets, r).Parent, HasParent) = NoNode

\* C17: a row whose parent lookup finds no supplier does not stop the
\* construction, and a successful Apply has issued create-process for the
\* process instance of that row
C17_DanglingRowStillProcessed ==
    Succeeded =>
        \A k \in 1..Len(AllRefs(worksheets)) :
            LET r == AllRefs(worksheets)[k]
            IN  WiringFails(r) =>
                  /\ NodeOfRow(r) \in Instances
                  /\ CallsOfNode("createProcess", NodeOfRow(r)) # {}

----------------------------------------------------------------------------
(* Keywords: the calls that change and validate the keyword maps *)

\* keywords handed to one Set*Keywords call
MaxKeywords == 2

\* "s" and "p" are default keywords, "x" is a new one
KeywordChoices == {"s", "p", "x"}

KeywordLists == SeqsUpTo(KeywordChoices, MaxKeywords)

\* Creater.Apply is not running
ApplyIdle ==
    /\ worksheets = <<>> /\ HasParent = FALSE /\ pc = "idle" /\ ExperimentID = 0
    /\ existingSamples = <<>> /\ root = <<>> /\ nodes = <<>> /\ rootIdx = 1
    /\ stack = <<>> /\ calls = <<>> /\ nextID = 1 /\ result = "none"

KeywordInit == ApplyIdle /\ SideIdle

AddSampleKeyword ==
    /\ \E keyword \in KeywordChoices :
         keywords' = [keywords EXCEPT !.sample = @ \cup {keyword}, !.err = Unchecked]
    /\ UNCHANGED << applyVars, loader, conv, client, rowp, meas >>

SetSampleKeywords ==
    /\ \E list \in KeywordLists :
         keywords' = [keywords EXCEPT !.sample = Range(list), !.err = Unchecked]
    /\ UNCHANGED << applyVars, loader, conv, client, rowp, meas >>

AddProcessKeyword ==
    /\ \E keyword \in KeywordChoices :
         keywords' = [keywords EXCEPT !.process = @ \cup {keyword}, !.err = Unchecked]
    /\ UNCHANGED << applyVars, loader, conv, client, rowp, meas >>

SetProcessKeywords ==
    /\ \E list \in KeywordLists :
         keywords' = [keywords EXCEPT !.process = Range(list), !.err = Unchecked]
    /\ UNCHANGED << applyVars, loader, conv, client, rowp, meas >>

AddFileKeyword ==
    /\ \E keyword \in KeywordChoices :
         keywords' = [keywords EXCEPT !.file = @ \cup {keyword}, !.err = Unchecked]
    /\ UNCHANGED << applyVars, loader, conv, client, rowp, meas >>

SetFileKeywords ==
    /\ \E list \in KeywordLists :
         keywords' = [keywords EXCEPT !.file = Range(list), !.err = Unchecked]
    /\ UNCHANGED << applyVars, loader, conv, client, rowp, meas >>

\* a call of ValidateKeywords; err keeps what it returned
ValidateKeywordsCall ==
    /\ keywords.err = Unchecked
    /\ keywords' = [keywords EXCEPT !.err = ValidateKeywords(keywords)]
    /\ UNCHANGED << applyVars, loader, conv, client, rowp, meas >>

KeywordNext ==
    \/ AddSampleKeyword
    \/ SetSampleKeywords
    \/ AddProcessKeyword
    \/ SetProcessKeywords
    \/ AddFileKeyword
    \/ SetFileKeywords
    \/ ValidateKeywordsCall

KeywordSpec == KeywordInit /\ [][KeywordNext]_vars

----------------------------------------------------------------------------
(* C14 *)

\* some keyword is a member of two or more of the three sets
InTwoSets ==
    (keywords.sample \cap keywords.process) \cup (keywords.sample \cap keywords.file)
        \cup (keywords.process \cap keywords.file) # {}

SomeSetEmpty == keywords.sample = {} \/ keywords.process = {} \/ keywords.file = {}

\* C14: after any sequence of Add*Keyword and Set*Keywords calls,
\* ValidateKeywords returns an error if and only if one of the three keyword
\* sets is empty or some keyword is in two or more of them
C14_KeywordValidation ==
    keywords.err # Unchecked =>
        ((keywords.err # NoError) <=> (SomeSetEmpty \/ InTwoSets))

\* sample keywords {s}, process keywords {s, p}: the validation fails
C14_Witness ==
    /\ keywords.sample = {"s"} /\ keywords.process = {"s", "p"} /\ keywords.file # {}
    /\ keywords.err = "there are overlapping keywords"

----------------------------------------------------------------------------
(* Loader: Load *)

\* a parent cell that names no worksheet of the workbook
UnknownWorksheet == <<"X">>

\* the rows the row processor may hand over: any sample name with any parent
ParsedRows ==
    { Sample(n, p, <<>>, IF n = <<"S">> THEN GrainOf2 ELSE <<>>, <<>>) :
        n \in SampleNames,
        p \in {Empty, UnknownWorksheet} \cup { WorksheetNames[j] : j \in 1..Len(WorksheetNames) } }

\* the sheets of a workbook as loadWorksheet parses them, of at most
\* MaxTotalRows rows
ParsedWorksheets ==
    UNION { UNION { { << Worksheet(WorksheetNames[1], r1), Worksheet(WorksheetNames[2], r2) >> :
                        r1 \in [1..n1 -> ParsedRows],
                        r2 \in [1..n2 -> ParsedRows] } :
                    n2 \in 0..(MaxTotalRows - n1) } :
            n1 \in 0..MaxTotalRows }

\* sample and process keywords that overlap
OverlappingKeywords == [DefaultKeywords EXCEPT !.process = {"s", "p"}]

\* a call of Load about to start: the sheets of the workbook, the sheets whose
\* loadWorksheet fails, and whether the file opens
LoadCalls ==
    { [pc |-> "start", sheets |-> sheets, failing |-> failing, opens |-> opens,
       validated |-> FALSE, worksheets |-> <<>>, parentErrors |-> <<>>, errors |-> <<>>] :
        sheets \in ParsedWorksheets, failing \in SUBSET (1..Len(WorksheetNames)),
        opens \in BOOLEAN }

LoadInit ==
    /\ ApplyIdle
    /\ keywords \in {DefaultKeywords, OverlappingKeywords}
    /\ loader \in LoadCalls
    /\ conv = Idle /\ client = Idle /\ rowp = Idle /\ meas = Idle

\* the error loadWorksheet returns for a sheet
SheetError(name) == [kind |-> "sheet", worksheet |-> name]

\* the sheets of order up to the first one that fails: a faulty variant of
\* the loop of Load that returns at the first error
sheetsUntilFailure(order, failing) ==
    LET firstFailure == IF \E k \in 1..Len(order) : order[k] \in failing
                          THEN CHOOSE k \in 1..Len(order) :
                                 /\ order[k] \in failing
                                 /\ \A j \in 1..(k - 1) : order[j] \notin failing
                          ELSE Len(order) + 1
    IN  SubSeq(order, 1, firstFailure - 1)

\* the sheets of order that the loop of Load appends to worksheets: a sheet
\* whose loadWorksheet fails is passed over and the loop goes on
sheetsLoaded(order, failing) == SelectSeq(order, LAMBDA i : i \notin failing)

\* the sheets of order whose error the loop of Load appends to savedErrs
sheetsFailed(order, failing) == SelectSeq(order, LAMBDA i : i \in failing)

\* Load: validate the keywords, open the file, load the sheets in the order
\* the sheet map is ranged over, validate the parents, return both results
Load ==
    /\ loader.pc = "start"
    /\ \E order \in Orders(1..Len(loader.sheets)) :
         LET err        == ValidateKeywords(keywords)
             loaded     == sheetsLoaded(order, loader.failing)
             failed     == sheetsFailed(order, loader.failing)
             worksheets_ == [k \in 1..Len(loaded) |-> loader.sheets[loaded[k]]]
             savedErrs  == [k \in 1..Len(failed) |-> SheetError(loader.sheets[failed[k]].Name)]
             parentErrs == validateParents(worksheets_)
         IN  loader' =
               IF err # NoError
                 THEN [loader EXCEPT !.pc = "returned", !.errors = <<err>>]
               ELSE IF ~loader.opens
                 THEN [loader EXCEPT !.pc = "returned", !.errors = <<"open">>]
               ELSE [loader EXCEPT !.pc = "returned", !.validated = TRUE,
                                   !.worksheets = worksheets_,
                                   !.parentErrors = parentErrs,
                                   !.errors = savedErrs \o parentErrs]
    /\ UNCHANGED << applyVars, keywords, conv, client, rowp, meas >>

LoadNext == Load

LoadSpec == LoadInit /\ [][LoadNext]_vars

----------------------------------------------------------------------------
(* C12 *)

\* the rows of ws whose parent is not empty and is the row's own worksheet or
\* the name of no worksheet of ws
Violating(ws) ==
    { k \in 1..Len(AllRefs(ws)) :
        LET r == AllRefs(ws)[k]
            sample == Row(ws, r)
        IN  /\ sample.Parent # Empty
            /\ \/ sample.Parent = ws[r.ws].Name
               \/ \A i \in 1..Len(ws) : ws[i].Name # sample.Parent }

\* Load went as far as the parent validation
Validated == loader.pc = "returned" /\ loader.validated

\* C12: parent validation reports an error if and only if some row has a
\* non-empty parent that is its own worksheet or names no loaded worksheet; a
\* set loaded without error has no such row
C12_ParentValidation ==
    Validated =>
        /\ (loader.parentErrors # <<>>) <=> (Violating(loader.worksheets) # {})
        /\ loader.errors = <<>> => Violating(loader.worksheets) = {}

\* a row that names its own worksheet as parent was reported
C12_Witness ==
    /\ Validated
    /\ \E k \in 1..Len(loader.parentErrors) : loader.parentErrors[k].kind = "self"
    /\ \A k \in 1..Len(loader.parentErrors) : loader.parentErrors[k].kind = "self"

----------------------------------------------------------------------------
(* C13 *)

\* C13: parent validation yields one error per violating row, and Load
\* returns every parsed worksheet together with the accumulated errors
C13_ErrorsAccumulate ==
    Validated =>
        /\ Len(loader.parentErrors) = Cardinality(Violating(loader.worksheets))
        /\ Len(loader.worksheets) = Len(loader.sheets) - Cardinality(loader.failing)
        /\ Range(loader.worksheets) =
             { loader.sheets[i] : i \in (1..Len(loader.sheets)) \ loader.failing }
        /\ Len(loader.errors) = Cardinality(loader.failing) + Len(loader.parentErrors)
        /\ \A k \in 1..Len(loader.parentErrors) :
             loader.errors[Cardinality(loader.failing) + k] = loader.parentErrors[k]

\* two violating rows gave two errors, returned with the worksheets
C13_Witness ==
    /\ Validated
    /\ Cardinality(Violating(loader.worksheets)) = 2
    /\ Len(loader.errors) = 2
    /\ Len(loader.worksheets) = 2

----------------------------------------------------------------------------
(* C28 *)

\* the entries of the returned multi-error that loadWorksheet produced
SheetErrorsOf(name) ==
    { k \in 1..Len(loader.errors) : loader.errors[k] = SheetError(name) }

\* C28: a worksheet that fails parsing does not abort the others: every
\* worksheet that parsed is returned, once, no failed worksheet is returned,
\* and the returned multi-error has one entry for each failed worksheet
C28_FailureDoesNotAbort ==
    Validated =>
        \A i \in 1..Len(loader.sheets) :
            LET returned == { k \in 1..Len(loader.worksheets) :
                                loader.worksheets[k] = loader.sheets[i] }
                reported == SheetErrorsOf(loader.sheets[i].Name)
            IN  IF i \in loader.failing
                  THEN Cardinality(returned) = 0 /\ Cardinality(reported) = 1
                  ELSE Cardinality(returned) = 1 /\ Cardinality(reported) = 0

\* one worksheet failed, the other one was parsed and returned with its row
C28_Witness ==
    /\ Validated
    /\ Cardinality(loader.failing) = 1
    /\ Len(loader.worksheets) = 1
    /\ Len(loader.worksheets[1].Samples) > 0
    /\ \E k \in 1..Len(loader.errors) : loader.errors[k].kind = "sheet"

----------------------------------------------------------------------------
(* Cell conversion: strconv and encoding/json as the converter uses them.
   A text is a sequence of one-character strings. *)

\* the length of the cells that are enumerated
MaxCellLen == 3

Digits == {"0", "1", "2", "3", "4", "5", "6", "7", "8", "9"}

HexDigits == Digits \cup {"a", "b", "c", "d", "e", "f", "A", "B", "C", "D", "E", "F"}

\* the characters below 0x20 that occur in the cells
ControlChars == {"\n", "\t", "\r"}

\* the character of s at i, "" beyond its ends
At(s, i) == IF i >= 1 /\ i <= Len(s) THEN s[i] ELSE ""

HasPrefix(s, c) == At(s, 1) = c

HasSuffix(s, c) == At(s, Len(s)) = c

\* strings.Count
stringsCount(s, c) == Cardinality({ i \in 1..Len(s) : s[i] = c })

RECURSIVE skipDigits(_, _)
skipDigits(s, i) == IF At(s, i) \in Digits THEN skipDigits(s, i + 1) ELSE i

RECURSIVE skipSpace(_, _)
skipSpace(s, i) ==
    IF At(s, i) \in {" ", "\n", "\t", "\r"} THEN skipSpace(s, i + 1) ELSE i

RECURSIVE stripZeros(_)
stripZeros(d) == IF Len(d) > 1 /\ d[1] = "0" THEN stripZeros(Tail(d)) ELSE d

RECURSIVE padZeros(_, _)
padZeros(d, n) == IF Len(d) >= n THEN d ELSE padZeros(d \o <<"0">>, n)

\* strconv.ParseInt(str, 10, 64), for numbers of fewer than 19 digits
ParseInt(str) ==
    LET signed == At(str, 1) \in {"+", "-"}
        d      == IF signed THEN Tail(str) ELSE str
        ok     == d # <<>> /\ \A k \in 1..Len(d) : d[k] \in Digits
    IN  [ok |-> ok,
         neg |-> ok /\ At(str, 1) = "-" /\ stripZeros(d) # <<"0">>,
         digits |-> IF ok THEN stripZeros(d) ELSE <<>>]

\* fmt.Sprintf("%d", v)
FormatD(v) == (IF v.neg THEN <<"-">> ELSE <<>>) \o v.digits

\* strconv.ParseBool
ParseBool(str) ==
    IF str \in {<<"1">>, <<"t">>, <<"T">>, <<"T", "R", "U", "E">>,
                <<"t", "r", "u", "e">>, <<"T", "r", "u", "e">>}
      THEN [ok |-> TRUE, val |-> TRUE]
    ELSE IF str \in {<<"0">>, <<"f">>, <<"F">>, <<"F", "A", "L", "S", "E">>,
                     <<"f", "a", "l", "s", "e">>, <<"F", "a", "l", "s", "e">>}
      THEN [ok |-> TRUE, val |-> FALSE]
    ELSE [ok |-> FALSE, val |-> FALSE]

\* fmt.Sprintf("%t", b)
FormatT(b) == IF b THEN <<"t", "r", "u", "e">> ELSE <<"f", "a", "l", "s", "e">>

\* strconv.ParseFloat(str, 64) on decimal literals without exponent: a sign,
\* digits, at most one point, at least one digit
ParseFloat(str) ==
    LET signed == At(str, 1) \in {"+", "-"}
        d      == IF signed THEN Tail(str) ELSE str
        p      == skipDigits(d, 1)
        q      == IF At(d, p) = "." THEN skipDigits(d, p + 1) ELSE p
        ok     == q = Len(d) + 1 /\ stringsCount(d, ".") < Len(d)
    IN  [ok |-> ok,
         neg |-> ok /\ At(str, 1) = "-",
         int |-> IF ok THEN stripZeros(IF p = 1 THEN <<"0">> ELSE SubSeq(d, 1, p - 1)) ELSE <<>>,
         frac |-> IF ok /\ p < q THEN SubSeq(d, p + 1, q - 1) ELSE <<>>]

\* fmt.Sprintf("%f", v): six digits after the point (the fractions of the
\* cells have fewer, so no digit is rounded away)
FormatF(v) ==
    (IF v.neg THEN <<"-">> ELSE <<>>) \o v.int \o <<".">> \o SubSeq(padZeros(v.frac, 6), 1, 6)

\* the scanner of encoding/json: each scan returns the index after what it
\* read, 0 when the text is not valid there
RECURSIVE scanStringBody(_, _)
scanStringBody(s, i) ==
    IF i > Len(s) THEN 0
    ELSE IF s[i] = "\"" THEN i + 1
    ELSE IF s[i] = "\\"
      THEN IF At(s, i + 1) \in {"\"", "\\", "/", "b", "f", "n", "r", "t"}
             THEN scanStringBody(s, i + 2)
           ELSE IF At(s, i + 1) = "u" /\ \A k \in 2..5 : At(s, i + k) \in HexDigits
             THEN scanStringBody(s, i + 6)
           ELSE 0
    ELSE IF s[i] \in ControlChars THEN 0
    ELSE scanStringBody(s, i + 1)

numberExpDigits(s, e) == IF At(s, e) \in Digits THEN skipDigits(s, e) ELSE 0

numberExp(s, c) ==
    IF At(s, c) \in {"e", "E"}
      THEN numberExpDigits(s, IF At(s, c + 1) \in {"+", "-"} THEN c + 2 ELSE c + 1)
    ELSE c

numberFrac(s, b) ==
    IF At(s, b) = "."
      THEN (IF At(s, b + 1) \in Digits THEN numberExp(s, skipDigits(s, b + 1)) ELSE 0)
    ELSE numberExp(s, b)

numberInt(s, a) ==
    IF At(s, a) = "0" THEN numberFrac(s, a + 1)
    ELSE IF At(s, a) \in Digits THEN numberFrac(s, skipDigits(s, a))
    ELSE 0

scanNumber(s, i) == numberInt(s, IF At(s, i) = "-" THEN i + 1 ELSE i)

scanLiteral(s, i, lit) ==
    IF i + Len(lit) - 1 <= Len(s) /\ SubSeq(s, i, i + Len(lit) - 1) = lit
      THEN i + Len(lit) ELSE 0

\* the escapes of a string literal decoded (a \u escape keeps its spelling)
RECURSIVE unquote(_)
unquote(body) ==
    IF body = <<>> THEN <<>>
    ELSE IF body[1] = "\\" /\ At(body, 2) \in {"\"", "\\", "/"}
      THEN <<body[2]>> \o unquote(SubSeq(body, 3, Len(body)))
    ELSE IF body[1] = "\\" /\ At(body, 2) = "n"
      THEN <<"\n">> \o unquote(SubSeq(body, 3, Len(body)))
    ELSE IF body[1] = "\\" /\ At(body, 2) = "t"
      THEN <<"\t">> \o unquote(SubSeq(body, 3, Len(body)))
    ELSE IF body[1] = "\\" /\ At(body, 2) = "r"
      THEN <<"\r">> \o unquote(SubSeq(body, 3, Len(body)))
    ELSE <<body[1]>> \o unquote(Tail(body))

NoScan == [next |-> 0, kind |-> "none", text |-> <<>>]

ValueKey == <<"v", "a", "l", "u", "e">>

\* scanValue reads one JSON value, scanMembers the members of an object up to
\* its brace (found is the member "value" read so far), scanElements the
\* elements of an array up to its bracket
RECURSIVE scanValue(_, _)
RECURSIVE scanMembers(_, _, _)
RECURSIVE scanElements(_, _)
memberNext(s, e, now) ==
    IF At(s, e) = "}" THEN [now EXCEPT !.next = e + 1]
    ELSE IF At(s, e) = "," THEN scanMembers(s, e + 1, now)
    ELSE NoScan

memberEnd(s, key, v, found) ==
    IF v.next = 0 THEN NoScan
    ELSE memberNext(s, skipSpace(s, v.next), IF key = ValueKey THEN v ELSE found)

memberValue(s, key, c, found) ==
    IF At(s, c) # ":" THEN NoScan ELSE memberEnd(s, key, scanValue(s, c + 1), found)

memberColon(s, i, k, found) ==
    IF k = 0 THEN NoScan
    ELSE memberValue(s, unquote(SubSeq(s, i + 1, k - 2)), skipSpace(s, k), found)

memberKey(s, i, found) ==
    IF At(s, i) # "\"" THEN NoScan ELSE memberColon(s, i, scanStringBody(s, i + 1), found)

scanMembers(s, i0, found) == memberKey(s, skipSpace(s, i0), found)

elementNext(s, e) ==
    IF At(s, e) = "]" THEN e + 1
    ELSE IF At(s, e) = "," THEN scanElements(s, e + 1)
    ELSE 0

elementEnd(s, v) == IF v.next = 0 THEN 0 ELSE elementNext(s, skipSpace(s, v.next))

scanElements(s, i0) == elementEnd(s, scanValue(s, i0))

\* the members of the object whose brace was read before j
objectMembers(s, j) ==
    IF At(s, j) = "}" THEN [NoScan EXCEPT !.next = j + 1] ELSE scanMembers(s, j, NoScan)

\* the index after the array whose bracket was read before j
arrayEnd(s, j) == IF At(s, j) = "]" THEN j + 1 ELSE scanElements(s, j)

\* the value read from i up to next
valueRead(s, i, next, kind) ==
    IF next = 0 THEN NoScan
    ELSE [next |-> next, kind |-> kind,
          text |-> IF kind = "string" THEN unquote(SubSeq(s, i + 1, next - 2))
                   ELSE SubSeq(s, i, next - 1)]

valueAt(s, i) ==
    IF At(s, i) = "{" THEN valueRead(s, i, objectMembers(s, skipSpace(s, i + 1)).next, "object")
    ELSE IF At(s, i) = "[" THEN valueRead(s, i, arrayEnd(s, skipSpace(s, i + 1)), "array")
    ELSE IF At(s, i) = "\"" THEN valueRead(s, i, scanStringBody(s, i + 1), "string")
    ELSE IF At(s, i) = "-" \/ At(s, i) \in Digits THEN valueRead(s, i, scanNumber(s, i), "number")
    ELSE IF At(s, i) = "t" THEN valueRead(s, i, scanLiteral(s, i, <<"t", "r", "u", "e">>), "bool")
    ELSE IF At(s, i) = "f" THEN valueRead(s, i, scanLiteral(s, i, <<"f", "a", "l", "s", "e">>), "bool")
    ELSE IF At(s, i) = "n" THEN valueRead(s, i, scanLiteral(s, i, <<"n", "u", "l", "l">>), "null")
    ELSE NoScan

scanValue(s, i0) == valueAt(s, skipSpace(s, i0))

\* a nil map and the map make() returns
NilVal == [kind |-> "nil", text |-> <<>>]

EmptyVal == [kind |-> "none", text |-> <<>>]

\* json.Unmarshal(text, &val) into an empty map: the text must be one JSON
\* object; val is described by its entry "value"
unmarshalled(text, m) ==
    IF m.next # 0 /\ skipSpace(text, m.next) = Len(text) + 1
      THEN [err |-> NoError, val |-> [kind |-> m.kind, text |-> m.text]]
      ELSE [err |-> "json", val |-> EmptyVal]

unmarshalAt(text, i) ==
    IF At(text, i) # "{" THEN [err |-> "json", val |-> EmptyVal]
    ELSE unmarshalled(text, objectMembers(text, skipSpace(text, i + 1)))

Unmarshal(text) == unmarshalAt(text, skipSpace(text, 1))

----------------------------------------------------------------------------
(* Cell conversion: the converter *)

\* `{"value": ` of the format strings
ValuePrefix == <<"{", "\"", "v", "a", "l", "u", "e", "\"", ":", " ">>

\* the end of cellToString, u being what Unmarshal returned
stringUnmarshalled(u) ==
    IF u.err # NoError THEN [val |-> NilVal, err |-> u.err]
    ELSE [val |-> u.val, err |-> NoError]

cellToString(cell) ==
    stringUnmarshalled(Unmarshal(ValuePrefix \o <<"\"">> \o cell \o <<"\"", "}">>))

\* the end of cellToObject, cellToInt and cellToBool: on an error of
\* Unmarshal the cell is converted as a string
orString(cell, u) ==
    IF u.err # NoError THEN cellToString(cell)
    ELSE [val |-> u.val, err |-> NoError]

cellToObject(cell) == orString(cell, Unmarshal(ValuePrefix \o cell \o <<"}">>))

cellToArray(cell) == cellToObject(cell)

\* the end of cellToFloat: the cell is converted as a string when Unmarshal
\* returned no error
floatUnmarshalled(cell, u) ==
    IF u.err = NoError THEN cellToString(cell)
    ELSE [val |-> u.val, err |-> NoError]

floatParsed(cell, f) ==
    IF ~f.ok THEN cellToString(cell)
    ELSE floatUnmarshalled(cell, Unmarshal(ValuePrefix \o FormatF(f) \o <<"}">>))

cellToFloat(cell) == floatParsed(cell, ParseFloat(cell))

cellToInt(cell) ==
    orString(cell, Unmarshal(ValuePrefix \o FormatD(ParseInt(cell)) \o <<"}">>))

cellToBool(cell) ==
    orString(cell, Unmarshal(ValuePrefix \o FormatT(ParseBool(cell).val) \o <<"}">>))

isNumeric(str) == ParseInt(str).ok

isBool(str) == ParseBool(str).ok

cellToJSONMap(cell) ==
    IF HasPrefix(cell, "{") /\ HasSuffix(cell, "}") THEN cellToObject(cell)
    ELSE IF HasPrefix(cell, "[") /\ HasSuffix(cell, "]") THEN cellToArray(cell)
    ELSE IF stringsCount(cell, ".") >= 1 /\ stringsCount(cell, ".") = 1 THEN cellToFloat(cell)
    ELSE IF isNumeric(cell) THEN cellToInt(cell)
    ELSE IF isBool(cell) THEN cellToBool(cell)
    ELSE cellToString(cell)

\* the characters the enumerated cells are made of
CellChars == {"1", "0", ".", "-", "t", "\"", "[", "]", "{", "}"}

Cell42 == <<"4", "2">>

Cell314 == <<"3", ".", "1", "4">>

CellTrue == <<"t", "r", "u", "e">>

CellArray == <<"[", "1", ",", "2", "]">>

CellObject == <<"{", "\"", "a", "\"", ":", "1", "}">>

CellHello == <<"h", "e", "l", "l", "o">>

\* a cell with a line break in it
CellTwoLines == <<"a", "\n", "b">>

\* the non-blank cells of an attribute column
Cells ==
    (SeqsUpTo(CellChars, MaxCellLen) \ {<<>>})
        \cup {Cell42, Cell314, CellTrue, CellArray, CellObject, CellHello, CellTwoLines}

ConvertInit ==
    /\ ApplyIdle
    /\ keywords = DefaultKeywords /\ loader = Idle /\ client = Idle
    /\ rowp = Idle /\ meas = Idle
    /\ conv \in { [pc |-> "cell", cell |-> c, val |-> NilVal, err |-> NoError] : c \in Cells }

\* the cell with the outcome r of its conversion
cellConverted(c, r) ==
    [c EXCEPT !.pc = IF r.err # NoError THEN "error" ELSE "added",
              !.val = r.val, !.err = r.err]

\* processSampleRow on one cell of an attribute column: the cell is converted,
\* and an error of the conversion ends the row
processSampleRow ==
    /\ conv.pc = "cell"
    /\ conv' = cellConverted(conv, cellToJSONMap(conv.cell))
    /\ UNCHANGED << applyVars, keywords, loader, client, rowp, meas >>

ConvertNext == processSampleRow

ConvertSpec == ConvertInit /\ [][ConvertNext]_vars

Converted == conv.pc \in {"added", "error"}

----------------------------------------------------------------------------
(* C15 *)

\* the cell is not typed by the object or the array rule
NotBracketed(cell) ==
    /\ ~(HasPrefix(cell, "{") /\ HasSuffix(cell, "}"))
    /\ ~(HasPrefix(cell, "[") /\ HasSuffix(cell, "]"))

\* C15: the cell is typed by the first matching rule of the cascade: a cell
\* with exactly one '.' that parses as a float yields a number, and the six
\* example cells yield an integer, a number, a boolean, an array, an object
\* and a string
C15_CascadeTyping ==
    Converted =>
        /\ (NotBracketed(conv.cell) /\ stringsCount(conv.cell, ".") = 1 /\ ParseFloat(conv.cell).ok)
              => conv.val.kind = "number"
        /\ conv.cell = Cell42 => conv.val = [kind |-> "number", text |-> Cell42]
        /\ conv.cell = Cell314 => conv.val.kind = "number"
        /\ conv.cell = CellTrue => conv.val = [kind |-> "bool", text |-> CellTrue]
        /\ conv.cell = CellArray => conv.val = [kind |-> "array", text |-> CellArray]
        /\ conv.cell = CellObject => conv.val = [kind |-> "object", text |-> CellObject]
        /\ conv.cell = CellHello => conv.val = [kind |-> "string", text |-> CellHello]

----------------------------------------------------------------------------
(* C16 *)

NoControlChars(cell) == \A i \in 1..Len(cell) : cell[i] \notin ControlChars

\* the typed parse of the cell's rule fails
TypedParseFails(cell) ==
    IF ~NotBracketed(cell) THEN Unmarshal(ValuePrefix \o cell \o <<"}">>).err # NoError
    ELSE IF stringsCount(cell, ".") = 1 THEN ~ParseFloat(cell).ok
    ELSE ~isNumeric(cell) /\ ~isBool(cell)

\* C16: a non-blank cell without control characters converts without error,
\* and when its typed parse fails the value is the cell text as a string
C16_StringFallbackNeverFails ==
    (Converted /\ NoControlChars(conv.cell)) =>
        /\ conv.err = NoError
        /\ TypedParseFails(conv.cell) => conv.val = [kind |-> "string", text |-> conv.cell]

----------------------------------------------------------------------------
(* API client: where mcurl and apikey come from *)

\* a key that the environment, or the config file, does not define; a flag
\* that the command line does not pass
Undefined == "undefined"

Keys == {"mcurl", "apikey"}

\* the defaults of the flags of the load command
FlagDefaults == [mcurl |-> "http://localhost:5016/api", apikey |-> ""]

\* the defaults of the config handler
loadDefaults == [mcurl |-> "https://materialscommons.org/api", apikey |-> ""]

\* what the environment, the config file and the command line may hold for
\* one key
Settings ==
    [env : {Undefined, "from-env"}, file : {Undefined, "from-file"},
     flag : {Undefined, "", "from-flag"}]

\* cmd.Flags().GetString(key): the value passed, else the default of the flag
GetStringFlag(key, setting) ==
    IF setting.flag = Undefined THEN FlagDefaults[key] ELSE setting.flag

\* config.GetString(key): the handlers are searched in the order environment,
\* config file, defaults, stopping at the first that has the key
configGetString(key, setting) ==
    IF setting.env # Undefined THEN setting.env
    ELSE IF setting.file # Undefined THEN setting.file
    ELSE loadDefaults[key]

\* the value the earlier cliCmdLoad takes for a key: the config handler is
\* asked first, the flag after it
resolveConfigFirst(key, setting) ==
    IF configGetString(key, setting) = "" THEN GetStringFlag(key, setting)
    ELSE configGetString(key, setting)

\* the value createAPIClient takes for a key
resolve(key, setting) ==
    IF GetStringFlag(key, setting) = "" THEN configGetString(key, setting)
    ELSE GetStringFlag(key, setting)

ClientInit ==
    /\ ApplyIdle
    /\ keywords = DefaultKeywords /\ loader = Idle /\ conv = Idle
    /\ rowp = Idle /\ meas = Idle
    /\ client \in { [pc |-> "start", settings |-> st, mcurl |-> "", apikey |-> "", err |-> NoError] :
                      st \in [Keys -> Settings] }

createAPIClient ==
    /\ client.pc = "start"
    /\ LET mcurl  == resolve("mcurl", client.settings["mcurl"])
           apikey == resolve("apikey", client.settings["apikey"])
       IN  client' =
             IF mcurl = "" THEN [client EXCEPT !.pc = "exit", !.err = "mcurl not set"]
             ELSE IF apikey = "" THEN [client EXCEPT !.pc = "exit", !.err = "apikey not set"]
             ELSE [client EXCEPT !.pc = "created", !.mcurl = mcurl, !.apikey = apikey]
    /\ UNCHANGED << applyVars, keywords, loader, conv, rowp, meas >>

ClientNext == createAPIClient

ClientSpec == ClientInit /\ [][ClientNext]_vars

----------------------------------------------------------------------------
(* C18 *)

\* C18: the client is built with the value of the environment when the
\* environment defines the key, else with the value of the config file when
\* the file defines it, whatever the command line passes
C18_EnvironmentThenFileThenFlag ==
    client.pc = "created" =>
        \A key \in Keys :
            LET setting == client.settings[key]
            IN  /\ setting.env # Undefined => client[key] = setting.env
                /\ (setting.env = Undefined /\ setting.file # Undefined)
                      => client[key] = setting.file

----------------------------------------------------------------------------
(* C21 *)

\* two rows of one worksheet with one unique-process-instance key
Collapsed(r1, r2) ==
    /\ r1 # r2 /\ r1.ws = r2.ws
    /\ makeSampleInstanceKey(Row(worksheets, r1), worksheets[r1.ws].Name, HasParent)
         = makeSampleInstanceKey(Row(worksheets, r2), worksheets[r2.ws].Name, HasParent)

\* the add-measurements calls for node n that sent the sample attributes of row r
MeasuredCalls(n, r) ==
    { j \in CallsOfNode("addMeasurements", n) :
        calls[j].ok /\ Row(worksheets, calls[j].row).Attributes = Row(worksheets, r).Attributes }

\* C21: two parentless rows of one worksheet with one key are members of one
\* node, a successful Apply has issued one create-process call for it, and
\* the sample attributes of both rows were sent as measurements in it
C21_CollapsedRowsBothMeasured ==
    Succeeded =>
        \A r1, r2 \in Range(AllRefs(worksheets)) :
            (Collapsed(r1, r2) /\ Row(worksheets, r1).Parent = Empty
                               /\ Row(worksheets, r2).Parent = Empty) =>
                /\ NodeOfRow(r1) = NodeOfRow(r2)
                /\ Cardinality(CallsOfNode("createProcess", NodeOfRow(r1))) = 1
                /\ MeasuredCalls(NodeOfRow(r1), r1) # {}
                /\ MeasuredCalls(NodeOfRow(r1), r2) # {}

----------------------------------------------------------------------------
(* C22 *)

\* the calls that send the files or the measurements of a worksheet row
DataOps == {"addSampleAndFilesToProcess", "addMeasurements"}

\* C22: the row whose files and measurements a call sends under a node's
\* process is a member of that node
C22_DataFromMemberRow ==
    \A j \in 1..Len(calls) :
        (calls[j].op \in DataOps /\ calls[j].row # NoRef)
            => calls[j].row \in Range(nodes[calls[j].node].Samples)

----------------------------------------------------------------------------
(* C23 *)

\* C23: the member rows of a process instance all carry the process
\* attributes of its first member
C23_MembersShareProcessAttrs ==
    Constructed =>
        \A n \in Instances : \A k \in 1..Len(nodes[n].Samples) :
            Row(worksheets, nodes[n].Samples[k]).ProcessAttrs
                = Row(worksheets, nodes[n].Samples[1]).ProcessAttrs

----------------------------------------------------------------------------
(* C24 *)

\* C24: add-measurements is called only for a row with at least one sample
\* attribute
C24_MeasurementsOnlyWithAttributes ==
    \A j \in CallsOf("addMeasurements") :
        Row(worksheets, calls[j].row).Attributes # <<>>

----------------------------------------------------------------------------
(* C29 *)

\* the sample name a node concerns
NameOfNode(n) ==
    IF n.kind = "root" THEN Row(worksheets, nodes[n].Samples[1]).Name
    ELSE nodes[n].SampleName

\* C29: after the wiring no root has a supplier, and the node of every row
\* with an empty parent is fed by the root of the row's sample name, which
\* lists the node among its consumers
C29_RootsFeedParentlessRows ==
    Constructed =>
        /\ \A n \in Roots : nodes[n].From = <<>>
        /\ \A r \in Range(AllRefs(worksheets)) :
             Row(worksheets, r).Parent = Empty =>
                 LET t == findProcessFromSampleInWorksheet(worksheets, nodes, r, HasParent)
                     s == RootId(Row(worksheets, r).Name)
                 IN  /\ t \in Instances
                     /\ s \in Roots
                     /\ Len(nodes[s].Samples) = 1
                     /\ NameOfNode(s) = Row(worksheets, r).Name
                     /\ s \in Range(nodes[t].From)
                     /\ t \in Range(nodes[s].To)

\* a parentless row and a row fed by another worksheet were both wired
C29_Witness ==
    /\ Constructed
    /\ \E r \in Range(AllRefs(worksheets)) : Row(worksheets, r).Parent = Empty
    /\ \E t \in Instances : \E s \in Instances : s \in Range(nodes[t].From)
    /\ \E t \in Instances : \E s \in Roots : t \in Range(nodes[s].To)

----------------------------------------------------------------------------
(* C30 *)

\* C30: every process instance concerns one sample name: its member rows,
\* the nodes it is joined to and the samples of its Out all have that name
C30_NodeOfOneSampleName ==
    Constructed =>
        \A n \in Instances :
            /\ \A k \in 1..Len(nodes[n].Samples) :
                 Row(worksheets, nodes[n].Samples[k]).Name = nodes[n].SampleName
            /\ \A s \in Range(nodes[n].From) \cup Range(nodes[n].To) :
                 NameOfNode(s) = nodes[n].SampleName
            /\ \A k \in 1..Len(nodes[n].Out) : nodes[n].Out[k].Name = nodes[n].SampleName

----------------------------------------------------------------------------
(* Row processor: the header row and the sample rows of a worksheet.  A cell
   is a sequence of one-character strings; positions count from 1, and 0
   stands for the -1 of strings.Index. *)

\* the length of the header cells that are enumerated
MaxHeaderLen == 4

WhiteSpace == {" ", "\t", "\n", "\r"}

\* strings.Index(s, c) for a one-character c
Index(s, c) ==
    IF \E i \in 1..Len(s) : s[i] = c
      THEN CHOOSE i \in 1..Len(s) : s[i] = c /\ \A j \in 1..(i - 1) : s[j] # c
      ELSE 0

\* strings.LastIndex(s, c) for a one-character c
LastIndex(s, c) ==
    IF \E i \in 1..Len(s) : s[i] = c
      THEN CHOOSE i \in 1..Len(s) : s[i] = c /\ \A j \in (i + 1)..Len(s) : s[j] # c
      ELSE 0

\* strings.TrimSpace
TrimSpace(s) ==
    IF \A i \in 1..Len(s) : s[i] \in WhiteSpace THEN <<>>
    ELSE SubSeq(s,
                CHOOSE i \in 1..Len(s) :
                    s[i] \notin WhiteSpace /\ \A j \in 1..(i - 1) : s[j] \in WhiteSpace,
                CHOOSE i \in 1..Len(s) :
                    s[i] \notin WhiteSpace /\ \A j \in (i + 1)..Len(s) : s[j] \in WhiteSpace)

\* strings.ToLower on the letters that occur in the cells
ToLower(s) ==
    [i \in 1..Len(s) |->
        CASE s[i] = "S" -> "s" [] s[i] = "P" -> "p" [] s[i] = "F" -> "f"
          [] s[i] = "A" -> "a" [] s[i] = "N" -> "n" [] OTHER -> s[i]]

\* s[from:], the text of s after position from - 1
TextFrom(s, from) == SubSeq(s, from, Len(s))

\* the characters of a keyword of the maps
Spelling(k) ==
    CASE k = "sample" -> <<"s", "a", "m", "p", "l", "e">>
      [] k = "sample attribute" ->
           <<"s", "a", "m", "p", "l", "e", " ", "a", "t", "t", "r", "i", "b", "u", "t", "e">>
      [] k = "process" -> <<"p", "r", "o", "c", "e", "s", "s">>
      [] k = "file" -> <<"f", "i", "l", "e">>
      [] k = "files" -> <<"f", "i", "l", "e", "s">>
      [] OTHER -> <<k>>

SampleAttributeColumn == "SampleAttributeColumn"

ProcessAttributeColumn == "ProcessAttributeColumn"

FileAttributeColumn == "FileAttributeColumn"

IgnoreAttributeColumn == "IgnoreAttributeColumn"

UnknownAttributeColumn == "UnknownAttributeColumn"

\* no entry of the map columnType
NoColumnType == "none"

\* hasKeywordInCell once the cell is lowercased and its first ':' is at i
hasKeywordAt(cell, i, keywordMap) ==
    /\ i # 0
    /\ \E k \in keywordMap : Spelling(k) = SubSeq(cell, 1, i - 1)

hasKeywordInCell(cell, keywordMap) ==
    hasKeywordAt(ToLower(cell), Index(ToLower(cell), ":"), keywordMap)

columnAttributeTypeFromKeyword(cell, kw) ==
    IF hasKeywordInCell(cell, kw.process) THEN ProcessAttributeColumn
    ELSE IF hasKeywordInCell(cell, kw.sample) THEN SampleAttributeColumn
    ELSE IF hasKeywordInCell(cell, kw.file) THEN FileAttributeColumn
    ELSE UnknownAttributeColumn

\* the outcome of cell2NameAndUnit: a name and a unit, or the run-time panic
\* of a slice expression whose bounds are out of range
NameAndUnit(name, unit) == [panic |-> FALSE, name |-> name, unit |-> unit]

SlicePanic == [panic |-> TRUE, name |-> <<>>, unit |-> <<>>]

\* cell2NameAndUnit once the keyword is cut off: open and close are the
\* positions of the first '(' and of the first ')'.  cell[open+1 : close]
\* panics when close is before open
nameAndUnitAt(cell, open, close) ==
    IF open = 0 THEN NameAndUnit(cell, <<>>)
    ELSE IF close # 0
      THEN IF close < open THEN SlicePanic
           ELSE NameAndUnit(TrimSpace(SubSeq(cell, 1, open - 1)),
                            TrimSpace(SubSeq(cell, open + 1, close - 1)))
    ELSE NameAndUnit(TrimSpace(SubSeq(cell, 1, open - 1)),
                     TrimSpace(TextFrom(cell, open + 1)))

\* the cell without its keyword
afterKeyword(cell, i) == IF i # 0 THEN TrimSpace(TextFrom(cell, i + 1)) ELSE cell

nameAndUnitOf(cell) == nameAndUnitAt(cell, Index(cell, "("), Index(cell, ")"))

nameAndUnitTrimmed(cell) ==
    IF cell = <<>> THEN NameAndUnit(<<>>, <<>>)
    ELSE nameAndUnitOf(afterKeyword(cell, Index(cell, ":")))

cell2NameAndUnit(cell) == nameAndUnitTrimmed(TrimSpace(cell))

\* model.FileHeader
FileHeader(description, path, column) ==
    [Description |-> description, Path |-> path, Column |-> column]

fileHeaderAt(cell, firstColon, secondColon, column) ==
    IF firstColon # secondColon
      THEN FileHeader(SubSeq(cell, firstColon + 1, secondColon - 1),
                      TrimSpace(TextFrom(cell, secondColon + 1)), column)
      ELSE FileHeader(<<>>, TrimSpace(TextFrom(cell, firstColon + 1)), column)

createFileHeader(cell, column) ==
    fileHeaderAt(cell, Index(cell, ":"), LastIndex(cell, ":"), column)

\* model.Attribute as NewAttribute makes it for a header
AttrHeader(name, unit, column) == [Name |-> name, Unit |-> unit, Column |-> column]

\* the case of a process or sample attribute column in processHeaderRow
attributeColumn(r, column, type, nu) ==
    IF nu.panic THEN [r EXCEPT !.pc = "panic"]
    ELSE IF type = ProcessAttributeColumn
      THEN [r EXCEPT !.columnType[column] = type,
                     !.ProcessAttrs = Append(@, AttrHeader(nu.name, nu.unit, column))]
    ELSE [r EXCEPT !.columnType[column] = type,
                   !.SampleAttrs = Append(@, AttrHeader(nu.name, nu.unit, column))]

\* the switch of processHeaderRow on the type of a column
headerSwitch(r, cell, column, type) ==
    IF type \in {ProcessAttributeColumn, SampleAttributeColumn}
      THEN attributeColumn(r, column, type, cell2NameAndUnit(cell))
    ELSE IF type = FileAttributeColumn
      THEN [r EXCEPT !.columnType[column] = type,
                     !.FileHeaders = Append(@, createFileHeader(cell, column))]
    ELSE IF type = IgnoreAttributeColumn
      THEN [r EXCEPT !.columnType[column] = type]
    ELSE [r EXCEPT !.warnings = Append(@, column)]

\* one turn of the loop of processHeaderRow, cell being trimmed
headerColumn(r, cell, column, kw) ==
    IF (column < 3 /\ r.HasParent) \/ column < 2 THEN r
    ELSE IF cell = <<>> THEN r
    ELSE headerSwitch(r, cell, column, columnAttributeTypeFromKeyword(cell, kw))

RECURSIVE headerColumns(_, _, _, _)
\* the loop of processHeaderRow from column on; a panic ends it
headerColumns(r, row, column, kw) ==
    IF column > Len(row) \/ r.pc = "panic" THEN r
    ELSE headerColumns(headerColumn(r, TrimSpace(row[column]), column, kw), row, column + 1, kw)

\* the words for a blank cell; isBlank is called on the trimmed cell
BlankWords == { <<>>, <<"n", "/", "a">>, <<"b", "l", "a", "n", "k">> }

isBlank(cell) == ToLower(TrimSpace(cell)) \in BlankWords

findAttr(attributes, column) ==
    attributes[CHOOSE k \in 1..Len(attributes) :
                 attributes[k].Column = column /\ \A j \in 1..(k - 1) : attributes[j].Column # column]

findFileHeader(fileHeaders, column) ==
    fileHeaders[CHOOSE k \in 1..Len(fileHeaders) :
                  fileHeaders[k].Column = column /\ \A j \in 1..(k - 1) : fileHeaders[j].Column # column]

\* cell2Filepath: a cell without '/' is joined to the path of the header
cell2Filepath(cell, fileHeader) ==
    IF Index(cell, "/") # 0 THEN cell
    ELSE IF fileHeader.Path = <<>> THEN cell
    ELSE fileHeader.Path \o <<"/">> \o cell

\* the sample of the row is the last one of the worksheet
currentSample(r) == Len(r.Samples)

\* the attribute of header attr with the converted cell, or the error
attributeCell(r, field, attr, converted) ==
    IF converted.err # NoError
      THEN [r EXCEPT !.err = converted.err, !.returned = TRUE]
    ELSE IF field = "Attributes"
      THEN [r EXCEPT !.Samples[currentSample(r)].Attributes =
                        Append(@, Attr(attr.Name, attr.Unit, converted.val))]
    ELSE [r EXCEPT !.Samples[currentSample(r)].ProcessAttrs =
                      Append(@, Attr(attr.Name, attr.Unit, converted.val))]

\* the switch of processSampleRow on the type of the column of a cell
sampleSwitch(r, cell, column, colType) ==
    IF colType = NoColumnType THEN r
    ELSE IF colType = SampleAttributeColumn
      THEN attributeCell(r, "Attributes", findAttr(r.SampleAttrs, column), cellToJSONMap(cell))
    ELSE IF colType = ProcessAttributeColumn
      THEN attributeCell(r, "ProcessAttrs", findAttr(r.ProcessAttrs, column), cellToJSONMap(cell))
    ELSE IF colType = FileAttributeColumn
      THEN [r EXCEPT !.Samples[currentSample(r)].Files =
                        Append(@, cell2Filepath(cell, findFileHeader(r.FileHeaders, column)))]
    ELSE r

\* one turn of the loop of processSampleRow, cell being trimmed
sampleColumn(r, cell, column) ==
    IF column = 1
      THEN IF cell = <<>> THEN [r EXCEPT !.returned = TRUE]
           ELSE [r EXCEPT !.Samples = Append(@, Sample(cell, Empty, <<>>, <<>>, <<>>))]
    ELSE IF column = 2 /\ r.HasParent
      THEN [r EXCEPT !.Samples[currentSample(r)].Parent = cell]
    ELSE IF isBlank(cell) THEN r
    ELSE sampleSwitch(r, cell, column, r.columnType[column])

RECURSIVE sampleColumns(_, _, _)
\* the loop of processSampleRow from column on; a return ends it
sampleColumns(r, row, column) ==
    IF column > Len(row) \/ r.returned THEN r
    ELSE sampleColumns(sampleColumn(r, TrimSpace(row[column]), column), row, column + 1)

\* the characters the enumerated header cells are made of
HeaderChars == {"s", "p", ":", "(", ")", "a", " "}

\* the header cells: every text of HeaderChars, a keyword in capitals, a file
\* column with a path
Headers ==
    SeqsUpTo(HeaderChars, MaxHeaderLen)
      \cup { <<"S", ":", "a">>, <<"f", ":", "a">>, <<"f", ":", "a", ":", "p">> }

\* the cells of the sample row under the header: a blank one, a number, a
\* word for blank, a path and a cell that no conversion accepts
DataCells == { <<>>, Cell42, <<"N", "/", "A">>, <<"a", "/", "a">>, <<"\"">> }

\* the columns of a row
Columns == 1..3

\* a worksheet with one header cell, in column 2 or 3, and one sample row
RowProcessors ==
    { [pc |-> "header", HasParent |-> hp, column |-> c,
       header |-> [k \in Columns |-> IF k = c THEN h ELSE IF k = 1 THEN <<"a">> ELSE <<>>],
       row |-> [k \in Columns |-> IF k = c THEN d ELSE IF k = 1 THEN <<"S">> ELSE <<>>],
       columnType |-> [k \in Columns |-> NoColumnType],
       SampleAttrs |-> <<>>, ProcessAttrs |-> <<>>, FileHeaders |-> <<>>,
       warnings |-> <<>>, Samples |-> <<>>, err |-> NoError, returned |-> FALSE] :
        hp \in BOOLEAN, c \in {2, 3}, h \in Headers, d \in DataCells }

HeaderInit ==
    /\ ApplyIdle
    /\ keywords = DefaultKeywords /\ loader = Idle /\ conv = Idle /\ client = Idle
    /\ meas = Idle
    /\ rowp \in RowProcessors

\* the header row is done unless it panicked
headerDone(r) == IF r.pc = "panic" THEN r ELSE [r EXCEPT !.pc = "rows"]

\* processHeaderRow on the header row of the worksheet
processHeaderRow ==
    /\ rowp.pc = "header"
    /\ rowp' = headerDone(headerColumns(rowp, rowp.header, 1, keywords))
    /\ UNCHANGED << applyVars, keywords, loader, conv, client, meas >>

\* the sample row is done, with or without an error
rowDone(r) == [r EXCEPT !.pc = IF r.err # NoError THEN "error" ELSE "loaded"]

\* the loop of loadWorksheet over the sample rows: processSampleRow on the row
processSampleRows ==
    /\ rowp.pc = "rows"
    /\ rowp' = rowDone(sampleColumns(rowp, rowp.row, 1))
    /\ UNCHANGED << applyVars, keywords, loader, conv, client, meas >>

HeaderNext == processHeaderRow \/ processSampleRows

HeaderSpec == HeaderInit /\ [][HeaderNext]_vars

\* the header cell and the data cell of the worksheet, trimmed
HeaderCell == TrimSpace(rowp.header[rowp.column])

DataCell == TrimSpace(rowp.row[rowp.column])

\* the header cell is in a column that is not reserved
NonReserved == rowp.column >= 3 \/ ~rowp.HasParent

----------------------------------------------------------------------------
(* C25 *)

\* C25: a header cell without ':' in a column that is not reserved makes a
\* sample attribute column, and a cell of the column that is not blank is
\* appended to the sample attributes of its row
C25_NoColonIsSampleAttribute ==
    (NonReserved /\ HeaderCell # <<>> /\ Index(HeaderCell, ":") = 0) =>
        /\ rowp.pc \in {"rows", "loaded", "error"} =>
              rowp.columnType[rowp.column] = SampleAttributeColumn
        /\ (rowp.pc = "loaded" /\ ~isBlank(DataCell)) =>
              Len(rowp.Samples[1].Attributes) = 1

----------------------------------------------------------------------------
(* C26 *)

\* the header cell after its keyword
Remainder == afterKeyword(HeaderCell, Index(HeaderCell, ":"))

\* the column has a keyword of the process or the sample attributes
AttributeHeader ==
    columnAttributeTypeFromKeyword(HeaderCell, keywords)
        \in {ProcessAttributeColumn, SampleAttributeColumn}

\* the attribute header processHeaderRow made for the column
HeaderAttrs == rowp.SampleAttrs \o rowp.ProcessAttrs

\* C26: for a header cell whose text after the keyword has both '(' and ')',
\* in any order, cell2NameAndUnit ends without failing, the name is the
\* trimmed text before the first '(' and the unit the trimmed text between
\* the parentheses
C26_BothParensNeverFail ==
    (/\ rowp.pc # "header" /\ NonReserved /\ AttributeHeader
     /\ Index(Remainder, "(") # 0 /\ Index(Remainder, ")") # 0) =>
        /\ rowp.pc # "panic"
        /\ Len(HeaderAttrs) = 1
        /\ HeaderAttrs[1].Name = TrimSpace(SubSeq(Remainder, 1, Index(Remainder, "(") - 1))
        /\ Index(Remainder, "(") < Index(Remainder, ")") =>
              HeaderAttrs[1].Unit =
                  TrimSpace(SubSeq(Remainder, Index(Remainder, "(") + 1, Index(Remainder, ")") - 1))

----------------------------------------------------------------------------
(* Creater: createAttributeMeasurements *)

\* the number of sample attributes of the rows that are enumerated
MaxAttrs == 3

\* the sample attributes a row may carry
MeasuredAttrs ==
    { Attr(n, u, v) : n \in { <<"G">>, <<"H">> }, u \in { <<"m">>, <<>> }, v \in {"1", "2"} }

\* mcapi.SampleProperty
SampleProperty(name, measurements) == [Name |-> name, Measurements |-> measurements]

\* mcapi.Measurement made of an attribute; Value is attr.Value["value"]
Measurement(attr) == [Unit |-> attr.Unit, Value |-> attr.Value, OType |-> "object"]

\* faulty variant: the measurement replaces the ones of the property
setMeasurement(sp, m) == [sp EXCEPT !.Measurements = <<m>>]

\* sp.Measurements = append(sp.Measurements, m)
appendMeasurement(sp, m) == [sp EXCEPT !.Measurements = Append(@, m)]

\* the property of the name in the map, a new one if the map has none
propertyOf(map, name) ==
    IF name \in DOMAIN map THEN map[name] ELSE SampleProperty(name, <<>>)

\* one turn of the first loop of createAttributeMeasurements
measurementAdded(map, attr) ==
    [n \in DOMAIN map \cup {attr.Name} |->
        IF n = attr.Name THEN appendMeasurement(propertyOf(map, n), Measurement(attr))
        ELSE map[n]]

RECURSIVE samplePropertiesMap(_, _, _)
\* the first loop of createAttributeMeasurements from attribute k on
samplePropertiesMap(map, attrs, k) ==
    IF k > Len(attrs) THEN map
    ELSE samplePropertiesMap(measurementAdded(map, attrs[k]), attrs, k + 1)

\* the second loop: the properties of the map in the order it is ranged over
sampleProperties(map, order) == [k \in 1..Len(order) |-> map[order[k]]]

MeasInit ==
    /\ ApplyIdle
    /\ keywords = DefaultKeywords /\ loader = Idle /\ conv = Idle /\ client = Idle
    /\ rowp = Idle
    /\ meas \in { [pc |-> "start", attrs |-> a, out |-> <<>>] : a \in SeqsUpTo(MeasuredAttrs, MaxAttrs) }

createAttributeMeasurements ==
    /\ meas.pc = "start"
    /\ \E order \in Orders(DOMAIN samplePropertiesMap(<<>>, meas.attrs, 1)) :
         meas' = [meas EXCEPT !.pc = "returned",
                              !.out = sampleProperties(samplePropertiesMap(<<>>, meas.attrs, 1), order)]
    /\ UNCHANGED << applyVars, keywords, loader, conv, client, rowp >>

MeasNext == createAttributeMeasurements

MeasSpec == MeasInit /\ [][MeasNext]_vars

----------------------------------------------------------------------------
(* C27 *)

RECURSIVE TotalMeasurements(_)
\* the number of measurements of a list of properties
TotalMeasurements(props) ==
    IF props = <<>> THEN 0
    ELSE Len(Head(props).Measurements) + TotalMeasurements(Tail(props))

\* the attributes of attrs named name, in their order
AttrsNamed(attrs, name) == SelectSeq(attrs, LAMBDA a : a.Name = name)

\* C27: createAttributeMeasurements groups the attributes by name: one
\* property per distinct name, each attribute gives one measurement (its
\* unit, its value, otype "object") to the property of its name, and there
\* are as many measurements as attributes
C27_GroupedByName ==
    meas.pc = "returned" =>
        /\ { meas.out[k].Name : k \in 1..Len(meas.out) }
              = { meas.attrs[k].Name : k \in 1..Len(meas.attrs) }
        /\ \A j, k \in 1..Len(meas.out) : meas.out[j].Name = meas.out[k].Name => j = k
        /\ \A k \in 1..Len(meas.out) :
             LET named == AttrsNamed(meas.attrs, meas.out[k].Name)
             IN  meas.out[k].Measurements =
                   [i \in 1..Len(named) |->
                      [Unit |-> named[i].Unit, Value |-> named[i].Value, OType |-> "object"]]
        /\ TotalMeasurements(meas.out) = Len(meas.attrs)

\* three attributes of two names gave two properties, one of two measurements
C27_Witness ==
    /\ meas.pc = "returned"
    /\ Len(meas.attrs) = 3
    /\ Len(meas.out) = 2
    /\ \E k \in 1..2 : Len(meas.out[k].Measurements) = 2

====
